---- MODULE Spec2Model ----
(***************************************************************************)
(* ESP32-BT-TNC: the AX.25 / AFSK transmit and receive pipeline.           *)
(*                                                                         *)
(* Bytes are integers 0..255, bits are integers 0..1, buffers are          *)
(* sequences.  The encoders and the CRC are operators computed the way     *)
(* the C++ computes them; the receive bit handler and the transmit entry   *)
(* points are actions.  Four specifications share the module:              *)
(*   SpecEnc     the pure encoders and the CRC applied to bounded inputs   *)
(*   SpecRx      a line bit stream fed to handleBit one bit per call       *)
(*   SpecTx      the transmit entry points of the three encoders, called   *)
(*               by one task, with the sample timer interrupt              *)
(*   SpecTxConc  the entry points that test a busy flag, called by two     *)
(*               tasks                                                     *)
(* and further on SpecTxLive (SpecTx with fairness), SpecKiss              *)
(* (sendKISSpacket), SpecCfg (the parameter setters), SpecLoop (loop() of  *)
(* main.cpp), SpecTables (the wave table cache) and SpecGoertzel           *)
(* (processGoertzel on blocks of ADC samples).                             *)
(***************************************************************************)
EXTENDS Integers, Sequences, FiniteSets, TLC

VARIABLES
    \* --- SpecEnc: one pure function applied to one input ---
    op,         \* name of the function that was applied ("none" before)
    arg,        \* its input buffer
    ret,        \* its result
    \* --- SpecRx: the receive bit handler ---
    rxSrc,      \* what the transmitter was given: [kind, payload, frame]
    rxLine,     \* the NRZI line bits to deliver
    rxPos,      \* number of bits delivered so far
    rxDecoded,  \* value of the local `decoded` in each handleBit call so far
    rxLocals,   \* handleBit's locals at its last return (observation only)
    kissOut,    \* the packets passed to sendKISSpacket, in order
    adcRead,    \* number of analogRead(RX_PIN) calls so far
    mag,        \* magMark and magSpace of the last processGoertzel
    \* --- SpecTx, SpecTxConc: the transmit entry points ---
    variant,    \* which encoder is linked: "legacy" (afskEncode.cpp),
                \* "encoder" (afskEncoder.cpp) or "modern" (afskEncodeModern.cpp)
    callers,    \* the tasks that call the transmit entry points
    pc,         \* per task: where it is inside its call ("idle" outside)
    req,        \* per task: the call it made last, [fn, data]
    loc,        \* per task: the locals of its call, [bits, bit]
    status,     \* per task: the value its last call returned
    why,        \* per task: the test that made its last call fail ("none" if none)
    hw,         \* the pins, the sample timer and the DAC
    drv,        \* the module / object state of the encoder, static buffers included
    \* --- SpecTables: the wave table cache of waveTables.cpp ---
    nvs,        \* the "afsk" namespace of the NVS: ready, sine1200, sine2200
    sine1200,   \* the table in RAM
    sine2200,   \* the table in RAM
    found,      \* what the last loadTables returned ("none" before)
    stored      \* generateAndStoreTables has completed

encVars == <<op, arg, ret>>
rxVars  == <<rxSrc, rxLine, rxPos, rxDecoded, rxLocals, kissOut, adcRead, mag>>
txVars  == <<variant, callers, pc, req, loc, status, why, hw, drv>>
cacheVars == <<nvs, sine1200, sine2200, found, stored>>
vars    == <<op, arg, ret, rxSrc, rxLine, rxPos, rxDecoded, rxLocals, kissOut,
             adcRead, mag,
             variant, callers, pc, req, loc, status, why, hw, drv,
             nvs, sine1200, sine2200, found, stored>>

(***************************************************************************)
(* Bounds of the model                                                     *)
(***************************************************************************)
MaxLen == 4          \* longest buffer given to an encoder, in bytes
MaxCrcLen == 3       \* longest buffer given to the CRC, in bytes

\* Byte values the inputs are drawn from: no ones, a single one at the high
\* end, five ones low (stuffing inside a byte), five ones high (the fifth
\* one lands on output bit 7), the flag pattern and all ones.
ByteAlphabet == {0, 31, 126, 128, 248, 255}

RECURSIVE SeqsUpTo(_, _)
SeqsUpTo(S, n) ==
    IF n = 0 THEN {<<>>}
    ELSE LET shorter == SeqsUpTo(S, n - 1)
         IN  shorter \cup {Append(s, b) : s \in {t \in shorter : Len(t) = n - 1}, b \in S}

(***************************************************************************)
(* Bit helpers                                                             *)
(***************************************************************************)
\* input[i] & (1 << j), as 0 or 1
BitOf(b, j) == (b \div (2 ^ j)) % 2

\* b | (1 << j) for j in 0..7
OrBit(b, j) == IF BitOf(b, j) = 1 THEN b ELSE b + 2 ^ j

\* b ^ (1 << j)
FlipBit(b, j) == IF BitOf(b, j) = 1 THEN b - 2 ^ j ELSE b + 2 ^ j

\* the bits of a byte buffer, least significant bit of each byte first
Bits(bytes) == [k \in 1..(8 * Len(bytes)) |-> BitOf(bytes[((k - 1) \div 8) + 1], (k - 1) % 8)]

KISS_FRAME_FLAG == 126

\* The loops below are recursive operators.  Each tests the value computed by
\* one iteration (Evaluated) before it goes on: the test is always true, and
\* makes the model checker compute the iterations one at a time.
Evaluated(v) == v = v

(***************************************************************************)
(* AX.25 bit stuffing: ax25Encode (afskEncode.cpp, afskFunctions.cpp) and  *)
(* AFSKEncoderModern::encodeAX25                                           *)
(***************************************************************************)
\* buf |= bit << count, with uint8_t buf and int count.  A set bit shifted to
\* position 8..31 is lost when the int is stored back into the uint8_t.  A
\* shift by 32 or more is undefined: `wraps` is the outcome of the build,
\* TRUE when the shifter uses the count modulo 32, FALSE when it yields 0.
ShiftIntoBuf(buf, bit, count, wraps) ==
    IF bit = 0 THEN buf
    ELSE IF count < 8 THEN OrBit(buf, count)
    ELSE IF count < 32 THEN buf
    ELSE IF wraps /\ count % 32 < 8 THEN OrBit(buf, count % 32)
    ELSE buf

\* the locals of the encoder before the first bit, the flag already written
ax25EncodeStart == [out |-> <<KISS_FRAME_FLAG>>, buf |-> 0, count |-> 0, ones |-> 0]

\* the body of the inner loop of ax25Encode for one input bit
ax25EncodeBit(st, bit, wraps) ==
    LET ones1  == IF bit = 1 THEN st.ones + 1 ELSE 0
        buf1   == ShiftIntoBuf(st.buf, bit, st.count, wraps)
        count1 == st.count + 1
        count2 == IF ones1 = 5 THEN count1 + 1 ELSE count1
        ones2  == IF ones1 = 5 THEN 0 ELSE ones1
    IN  IF count2 = 8
        THEN [out |-> Append(st.out, buf1), buf |-> 0, count |-> 0, ones |-> ones2]
        ELSE [out |-> st.out, buf |-> buf1, count |-> count2, ones |-> ones2]

\* for (int j = 0; j < 8; j++) over one input byte
RECURSIVE ax25EncodeByte(_, _, _, _)
ax25EncodeByte(byte, j, st, wraps) ==
    IF j > 7 THEN st
    ELSE LET st1 == ax25EncodeBit(st, BitOf(byte, j), wraps)
         IN  IF Evaluated(st1) THEN ax25EncodeByte(byte, j + 1, st1, wraps) ELSE st1

\* for (size_t i = 0; i < len; i++)
RECURSIVE ax25EncodeLoop(_, _, _, _)
ax25EncodeLoop(input, i, st, wraps) ==
    IF i > Len(input) THEN st
    ELSE LET st1 == ax25EncodeByte(input[i], 0, st, wraps)
         IN  IF Evaluated(st1) THEN ax25EncodeLoop(input, i + 1, st1, wraps) ELSE st1

\* ax25Encode(input, len, output): the bytes written to output; the value
\* returned is their number
ax25Encode(input, wraps) ==
    LET st   == ax25EncodeLoop(input, 1, ax25EncodeStart, wraps)
        tail == IF st.count # 0 THEN Append(st.out, st.buf) ELSE st.out
    IN  Append(tail, KISS_FRAME_FLAG)

\* sizeof(stuffedBuffer) and sizeof(nrziBuffer) in transmitPacket
StuffedBufferSize == 1024
NrziBufferSize == 8192

\* the inner loop body of encodeAX25; st.failed records a `return 0`
encodeAX25Bit(st, bit, maxOutputLen, wraps) ==
    LET ones1  == IF bit = 1 THEN st.ones + 1 ELSE 0
        buf1   == ShiftIntoBuf(st.buf, bit, st.count, wraps)
        count1 == st.count + 1
        full   == Len(st.out) >= maxOutputLen - 1
        count2 == IF ones1 = 5 THEN count1 + 1 ELSE count1
        ones2  == IF ones1 = 5 THEN 0 ELSE ones1
    IN  IF st.failed THEN st
        ELSE IF ones1 = 5 /\ full
        THEN [st EXCEPT !.buf = buf1, !.count = count1, !.ones = ones1, !.failed = TRUE]
        ELSE IF count2 = 8
        THEN [out |-> Append(st.out, buf1), buf |-> 0, count |-> 0, ones |-> ones2,
              failed |-> Len(st.out) + 1 >= maxOutputLen - 1]
        ELSE [out |-> st.out, buf |-> buf1, count |-> count2, ones |-> ones2,
              failed |-> FALSE]

RECURSIVE encodeAX25Byte(_, _, _, _, _)
encodeAX25Byte(byte, j, st, maxOutputLen, wraps) ==
    IF j > 7 \/ st.failed THEN st
    ELSE LET st1 == encodeAX25Bit(st, BitOf(byte, j), maxOutputLen, wraps)
         IN  IF Evaluated(st1) THEN encodeAX25Byte(byte, j + 1, st1, maxOutputLen, wraps)
             ELSE st1

RECURSIVE encodeAX25Loop(_, _, _, _, _)
encodeAX25Loop(input, i, st, maxOutputLen, wraps) ==
    IF st.failed \/ i > Len(input) \/ ~(Len(st.out) < maxOutputLen - 1) THEN st
    ELSE LET st1 == encodeAX25Byte(input[i], 0, st, maxOutputLen, wraps)
         IN  IF Evaluated(st1) THEN encodeAX25Loop(input, i + 1, st1, maxOutputLen, wraps)
             ELSE st1

\* encodeAX25(input, inputLen, output, maxOutputLen): [len |-> the value
\* returned, out |-> the bytes written to output]
encodeAX25(input, maxOutputLen, wraps) ==
    IF maxOutputLen < 2 THEN [len |-> 0, out |-> <<>>]
    ELSE LET st   == encodeAX25Loop(input, 1,
                        [out |-> <<KISS_FRAME_FLAG>>, buf |-> 0, count |-> 0,
                         ones |-> 0, failed |-> FALSE],
                        maxOutputLen, wraps)
             tail == IF st.count > 0 THEN Append(st.out, st.buf) ELSE st.out
             done == IF Len(tail) < maxOutputLen THEN Append(tail, KISS_FRAME_FLAG) ELSE tail
         IN  IF st.failed THEN [len |-> 0, out |-> st.out]
             ELSE [len |-> Len(done), out |-> done]

(***************************************************************************)
(* NRZI: nrziEncode (afskEncode.cpp, afskFunctions.cpp) and                *)
(* AFSKEncoderModern::encodeNRZI                                           *)
(***************************************************************************)
\* mutant of nrziEncodeBit: the transition made on a 1 bit instead of a 0 bit
nrziEncodeBit_onOne(last, bit) == IF bit = 1 THEN 1 - last ELSE last

\* if (!bit) last = !last;  the value then appended to the output
nrziEncodeBit(last, bit) == IF bit = 0 THEN 1 - last ELSE last

\* the inner loop over one input byte; st = [last, out]; cap is the size of
\* the output array in entries (encodeNRZI stops there), -1 for no test
RECURSIVE nrziEncodeByte(_, _, _, _)
nrziEncodeByte(byte, j, st, cap) ==
    IF j > 7 \/ (cap >= 0 /\ ~(Len(st.out) < cap)) THEN st
    ELSE LET l   == nrziEncodeBit(st.last, BitOf(byte, j))
             st1 == [last |-> l, out |-> Append(st.out, l)]
         IN  IF Evaluated(st1) THEN nrziEncodeByte(byte, j + 1, st1, cap) ELSE st1

RECURSIVE nrziEncodeLoop(_, _, _, _)
nrziEncodeLoop(input, i, st, cap) ==
    IF i > Len(input) \/ (cap >= 0 /\ ~(Len(st.out) < cap)) THEN st
    ELSE LET st1 == nrziEncodeByte(input[i], 0, st, cap)
         IN  IF Evaluated(st1) THEN nrziEncodeLoop(input, i + 1, st1, cap) ELSE st1

\* bool last = true; size_t out = 0;
nrziEncodeStart == [last |-> 1, out |-> <<>>]

\* nrziEncode(input, len, output): the entries written, one per bit
nrziEncode(input) == nrziEncodeLoop(input, 1, nrziEncodeStart, -1).out

\* encodeNRZI(input, inputLen, output, maxOutputLen)
encodeNRZI(input, maxOutputLen) == nrziEncodeLoop(input, 1, nrziEncodeStart, maxOutputLen).out

(***************************************************************************)
(* crc16_ccitt (goertzelFilter.cpp)                                        *)
(***************************************************************************)
RECURSIVE Xor(_, _)
Xor(a, b) ==
    IF a = 0 THEN b
    ELSE IF b = 0 THEN a
    ELSE ((a + b) % 2) + 2 * Xor(a \div 2, b \div 2)

CrcPoly == 4129      \* 0x1021
CrcInit == 65535     \* 0xFFFF

\* mutant of crcShift: the polynomial is never XORed in
crcShift_noPoly(crc) == (crc * 2) % 65536

\* crc = (crc & 0x8000) ? (crc << 1) ^ 0x1021 : (crc << 1), stored in a uint16_t
crcShift(crc) ==
    IF BitOf(crc, 15) = 1 THEN Xor(crc * 2, CrcPoly) % 65536 ELSE (crc * 2) % 65536

RECURSIVE crcShifts(_, _)
crcShifts(crc, n) ==
    IF n = 0 THEN crc
    ELSE LET c == crcShift(crc)
         IN  IF Evaluated(c) THEN crcShifts(c, n - 1) ELSE c

\* a crcByte that XORs the byte into the low half of the register
crcByte_lowByte(crc, byte) == crcShifts(Xor(crc, byte), 8)

\* crc ^= (uint16_t)data[i] << 8, then the eight shifts
crcByte(crc, byte) == crcShifts(Xor(crc, byte * 256), 8)

RECURSIVE crcLoop(_, _, _)
crcLoop(data, i, crc) ==
    IF i > Len(data) THEN crc
    ELSE LET c == crcByte(crc, data[i])
         IN  IF Evaluated(c) THEN crcLoop(data, i + 1, c) ELSE c

crc16_ccitt(data) == crcLoop(data, 1, CrcInit)

(***************************************************************************)
(* SpecEnc: one encoder or the CRC applied to one bounded input            *)
(***************************************************************************)
Buffers == SeqsUpTo(ByteAlphabet, MaxLen)

TABLE_LEN == 64

\* a key of the NVS namespace that was never written
Absent == [present |-> FALSE, value |-> <<>>]

\* the NVS erased, and the tables in RAM as the start-up code zeroes them
CacheIdle ==
    /\ nvs = [ready |-> Absent, sine1200 |-> Absent, sine2200 |-> Absent]
    /\ sine1200 = [i \in 1..TABLE_LEN |-> 0]
    /\ sine2200 = [i \in 1..TABLE_LEN |-> 0]
    /\ found = "none"
    /\ stored = FALSE

RxIdle ==
    /\ rxSrc = [kind |-> "none"]
    /\ rxLine = <<>>
    /\ rxPos = 0
    /\ rxDecoded = <<>>
    /\ rxLocals = [called |-> FALSE]
    /\ kissOut = <<>>
    /\ adcRead = 0
    /\ mag = [mark |-> 0, space |-> 0]

\* the two tasks that may call the transmit entry points
Tasks == {1, 2}

\* the pins low, the timer alarm off and unprogrammed, nothing on the DAC yet
HwReset == [ptt |-> 0, led |-> 0, alarm |-> FALSE, period |-> 0,
            dac |-> [src |-> "none"]]

\* the locals of a task outside a call
NoLocals == [bits |-> <<>>, bit |-> 0]

\* no task has called anything
TasksIdle ==
    /\ pc = [c \in Tasks |-> "idle"]
    /\ req = [c \in Tasks |-> [fn |-> "none", data |-> <<>>]]
    /\ loc = [c \in Tasks |-> NoLocals]
    /\ status = [c \in Tasks |-> "none"]
    /\ why = [c \in Tasks |-> "none"]

TxIdle ==
    /\ CacheIdle
    /\ variant = "none"
    /\ callers = {}
    /\ TasksIdle
    /\ hw = HwReset
    /\ drv = [initialized |-> FALSE]

EncIdle ==
    /\ op = "none"
    /\ arg = <<>>
    /\ ret = <<>>

InitEnc ==
    /\ op = "none"
    /\ arg \in Buffers
    /\ ret = <<>>
    /\ RxIdle
    /\ TxIdle

ApplyAx25Encode ==
    /\ op = "none"
    /\ \E wraps \in BOOLEAN :
          ret' = [out |-> ax25Encode(arg, wraps), wraps |-> wraps]
    /\ op' = "ax25Encode"
    /\ UNCHANGED <<arg, rxVars, txVars, cacheVars>>

ApplyEncodeAX25 ==
    /\ op = "none"
    /\ \E wraps \in BOOLEAN :
          LET r == encodeAX25(arg, StuffedBufferSize, wraps)
          IN  ret' = [out |-> r.out, len |-> r.len, wraps |-> wraps]
    /\ op' = "encodeAX25"
    /\ UNCHANGED <<arg, rxVars, txVars, cacheVars>>

\* the largest output capacity tried for encodeAX25
MaxCapacity == 5

\* encodeAX25 with an output array of maxOutputLen bytes
ApplyEncodeAX25Capped ==
    /\ op = "none"
    /\ Len(arg) <= MaxCrcLen
    /\ \E wraps \in BOOLEAN, maxOutputLen \in 0..MaxCapacity :
          LET r == encodeAX25(arg, maxOutputLen, wraps)
          IN  ret' = [out |-> r.out, len |-> r.len, wraps |-> wraps,
                      maxOutputLen |-> maxOutputLen]
    /\ op' = "encodeAX25Capped"
    /\ UNCHANGED <<arg, rxVars, txVars, cacheVars>>

ApplyNrziEncode ==
    /\ op = "none"
    /\ ret' = nrziEncode(arg)
    /\ op' = "nrziEncode"
    /\ UNCHANGED <<arg, rxVars, txVars, cacheVars>>

ApplyEncodeNRZI ==
    /\ op = "none"
    /\ ret' = encodeNRZI(arg, NrziBufferSize)
    /\ op' = "encodeNRZI"
    /\ UNCHANGED <<arg, rxVars, txVars, cacheVars>>

\* crc16_ccitt over the buffer, and over the buffer with that CRC appended
\* as two bytes, high byte first
ApplyCrcAppended ==
    /\ op = "none"
    /\ Len(arg) <= MaxCrcLen
    /\ LET c   == crc16_ccitt(arg)
           ext == arg \o <<c \div 256, c % 256>>
       IN  ret' = [crc |-> c, ext |-> ext, check |-> crc16_ccitt(ext)]
    /\ op' = "crcAppended"
    /\ UNCHANGED <<arg, rxVars, txVars, cacheVars>>

\* crc16_ccitt over the buffer, and over the buffer with bit j of byte i flipped
ApplyCrcFlipped ==
    /\ op = "none"
    /\ Len(arg) <= MaxCrcLen
    /\ \E i \in 1..Len(arg), j \in 0..7 :
          LET flipped == [arg EXCEPT ![i] = FlipBit(arg[i], j)]
          IN  ret' = [crc |-> crc16_ccitt(arg), flipped |-> flipped,
                      crcFlipped |-> crc16_ccitt(flipped)]
    /\ op' = "crcFlipped"
    /\ UNCHANGED <<arg, rxVars, txVars, cacheVars>>

NextEnc ==
    \/ ApplyAx25Encode
    \/ ApplyEncodeAX25
    \/ ApplyEncodeAX25Capped
    \/ ApplyNrziEncode
    \/ ApplyEncodeNRZI
    \/ ApplyCrcAppended
    \/ ApplyCrcFlipped

SpecEnc == InitEnc /\ [][NextEnc]_vars

(***************************************************************************)
(* The receive bit handler: handleBit (goertzelFilter.cpp)                 *)
(***************************************************************************)
MaxRxLen == 2               \* longest payload of a received frame, in bytes

FrameBufferSize == 330      \* uint8_t frameBuffer[330]
CrcResidue == 61624         \* 0xF0B8, the constant handleBit compares with

\* frameBuffer is a local array without initialiser: its content at entry is
\* whatever the stack holds.  Two contents stand for it.
StackGarbage == {[i \in 1..FrameBufferSize |-> 0], [i \in 1..FrameBufferSize |-> 255]}

\* the locals of handleBit as its declarations initialise them on every call
handleBitEntry(garbage) ==
    [lastNRZ |-> 1, oneCount |-> 0, shiftReg |-> 0, inFrame |-> FALSE,
     frameBuffer |-> garbage, frameIndex |-> 0]

\* the statements of handleBit after the declarations, from locals l:
\* [l |-> the locals at return, decoded |-> the decoded bit,
\*  sent |-> the buffers passed to sendKISSpacket]
handleBitBody(l, bit) ==
    LET decoded  == (l.lastNRZ + bit) % 2
        oneCount == IF decoded = 1 THEN l.oneCount + 1 ELSE 0
        l1       == [l EXCEPT !.lastNRZ = bit, !.oneCount = oneCount]
        shiftReg == IF decoded = 1 THEN OrBit(l.shiftReg \div 2, 7) ELSE l.shiftReg \div 2
        l2       == [l1 EXCEPT !.shiftReg = shiftReg]
    IN  IF oneCount = 6
        THEN [l |-> l1, decoded |-> decoded, sent |-> <<>>]
        ELSE IF shiftReg = KISS_FRAME_FLAG
        THEN [l |-> [l2 EXCEPT !.frameIndex = 0, !.inFrame = TRUE],
              decoded |-> decoded,
              sent |-> IF /\ l2.inFrame
                          /\ l2.frameIndex >= 3
                          /\ crc16_ccitt(SubSeq(l2.frameBuffer, 1, l2.frameIndex - 2)) = CrcResidue
                       THEN <<SubSeq(l2.frameBuffer, 1, l2.frameIndex - 2)>>
                       ELSE <<>>]
        ELSE IF l2.inFrame /\ l2.frameIndex < FrameBufferSize
        THEN [l |-> [l2 EXCEPT
                       !.frameBuffer[(l2.frameIndex \div 8) + 1] =
                           IF decoded = 1 THEN OrBit(@, l2.frameIndex % 8) ELSE @,
                       !.frameIndex = @ + 1],
              decoded |-> decoded, sent |-> <<>>]
        ELSE [l |-> l2, decoded |-> decoded, sent |-> <<>>]

\* what is kept of the locals for observation (the buffer is left out)
Scalars(l) ==
    [called |-> TRUE, lastNRZ |-> l.lastNRZ, oneCount |-> l.oneCount,
     shiftReg |-> l.shiftReg, inFrame |-> l.inFrame, frameIndex |-> l.frameIndex]

\* one call handleBit(bit) with the next bit of the line: the receiver's
\* side of it
handleBitCall ==
    /\ rxPos < Len(rxLine)
    /\ \E garbage \in StackGarbage :
          LET r == handleBitBody(handleBitEntry(garbage), rxLine[rxPos + 1])
          IN  /\ kissOut' = kissOut \o r.sent
              /\ rxDecoded' = Append(rxDecoded, r.decoded)
              /\ rxLocals' = Scalars(r.l)
    /\ rxPos' = rxPos + 1
    /\ UNCHANGED <<rxSrc, rxLine, adcRead, mag>>

\* handleBit(bit) on its own
handleBit ==
    /\ handleBitCall
    /\ UNCHANGED <<encVars, txVars, cacheVars>>

(***************************************************************************)
(* SpecRx: a byte buffer is NRZI-encoded, raw or as an AX.25 frame, and    *)
(* the line bits are delivered to handleBit one per call                   *)
(***************************************************************************)
RxPayloads == SeqsUpTo(ByteAlphabet, MaxRxLen)

\* the payload followed by its CRC, high byte first; a bad CRC has the low
\* bit of its last byte flipped
WithCrc(payload, crcGood) ==
    LET c == crc16_ccitt(payload)
    IN  payload \o <<c \div 256, IF crcGood THEN c % 256 ELSE FlipBit(c % 256, 0)>>

\* longest run of logical bits delivered after a flag
MaxTailBits == 7

\* the eight logical bits of the flag 0x7E, first received first
FlagBits == Bits(<<KISS_FRAME_FLAG>>)

\* the logical bit streams "a flag, then up to MaxTailBits bits"
FlagThenTail == {FlagBits \o t : t \in SeqsUpTo({0, 1}, MaxTailBits)}

\* the line bits that handleBit decodes as the logical bits `logical`:
\* decoded = lastNRZ ^ bit with lastNRZ = true at every entry
LineFor(logical) == [k \in 1..Len(logical) |-> 1 - logical[k]]

\* a frame that fails (an abort of eight 1 bits after a flag, or a frame
\* whose CRC does not match) followed by a well-formed frame
FailedThenGood(payload, failure, wraps) ==
    (IF failure = "abort" THEN <<KISS_FRAME_FLAG, 255>>
     ELSE ax25Encode(WithCrc(payload, FALSE), wraps))
    \o ax25Encode(WithCrc(payload, TRUE), wraps)

InitRx ==
    /\ EncIdle
    /\ TxIdle
    /\ \/ \E payload \in RxPayloads, kind \in {"raw", "frame"},
             crcGood \in BOOLEAN, wraps \in BOOLEAN :
             /\ kind = "raw" => (crcGood /\ wraps /\ Len(payload) >= 1)
             /\ rxSrc = [kind |-> kind, payload |-> payload, crcGood |-> crcGood,
                         wraps |-> wraps]
             /\ rxLine = IF kind = "raw" THEN nrziEncode(payload)
                         ELSE nrziEncode(ax25Encode(WithCrc(payload, crcGood), wraps))
       \/ \E logical \in FlagThenTail :
             /\ rxSrc = [kind |-> "line", logical |-> logical]
             /\ rxLine = LineFor(logical)
       \/ \E payload \in RxPayloads, failure \in {"abort", "badcrc"}, wraps \in BOOLEAN :
             /\ Len(payload) >= 1
             /\ rxSrc = [kind |-> "failed", payload |-> payload, failure |-> failure,
                         wraps |-> wraps]
             /\ rxLine = nrziEncode(FailedThenGood(payload, failure, wraps))
    /\ rxPos = 0
    /\ rxDecoded = <<>>
    /\ rxLocals = [called |-> FALSE]
    /\ kissOut = <<>>
    /\ adcRead = 0
    /\ mag = [mark |-> 0, space |-> 0]

NextRx == handleBit

SpecRx == InitRx /\ [][NextRx]_vars

RxDone == rxPos = Len(rxLine)

\* C3: an AX.25 payload with a correct trailing CRC, encoded by ax25Encode
\* and nrziEncode and delivered bit by bit to handleBit, is passed to
\* sendKISSpacket exactly once, as the original payload bytes.
C3_FramingRoundTrip ==
    (rxSrc.kind = "frame" /\ rxSrc.crcGood /\ RxDone) => kissOut = <<rxSrc.payload>>

\* C4: a received frame is passed to sendKISSpacket if and only if its CRC
\* matches, and what is passed excludes the two CRC bytes.
C4_ForwardedIffCrcMatches ==
    (rxSrc.kind = "frame" /\ RxDone) =>
        /\ (kissOut # <<>>) <=> rxSrc.crcGood
        /\ \A k \in 1..Len(kissOut) : kissOut[k] = rxSrc.payload

\* C5: the receive-side NRZI decode of nrziEncode(B) is B, bit for bit.
C5_NrziRoundTrip ==
    (rxSrc.kind = "raw" /\ RxDone) => rxDecoded = Bits(rxSrc.payload)

(***************************************************************************)
(* Properties of the encoders and of the CRC (SpecEnc)                     *)
(***************************************************************************)
\* the bytes strictly between the opening and the closing flag byte
Region(out) == SubSeq(out, 2, Len(out) - 1)

\* six consecutive one-bits somewhere in the bit sequence
HasSixOnes(bits) ==
    \E k \in 1..(Len(bits) - 5) : \A i \in k..(k + 5) : bits[i] = 1

\* the bit sequence with the 0 that follows each run of five 1 bits deleted
RECURSIVE DestuffFrom(_, _, _, _)
DestuffFrom(bits, k, ones, acc) ==
    IF k > Len(bits) THEN acc
    ELSE IF ones = 5 /\ bits[k] = 0 THEN DestuffFrom(bits, k + 1, 0, acc)
    ELSE LET acc1 == Append(acc, bits[k])
         IN  IF Evaluated(acc1)
             THEN DestuffFrom(bits, k + 1, IF bits[k] = 1 THEN ones + 1 ELSE 0, acc1)
             ELSE acc1

Destuff(bits) == DestuffFrom(bits, 1, 0, <<>>)

\* the logical bits received after the flag that opened the stream
RxTail == SubSeq(rxDecoded, Len(FlagBits) + 1, Len(rxDecoded))

\* a flag has been received, and after it some bits that hold neither an
\* abort nor another flag
InOpenFrame ==
    /\ rxLocals.called
    /\ Len(rxDecoded) >= Len(FlagBits)
    /\ SubSeq(rxDecoded, 1, Len(FlagBits)) = FlagBits
    /\ ~HasSixOnes(RxTail)

\* C22: the state of handleBit persists from call to call: after the eight
\* logical bits 0,1,1,1,1,1,1,0 in eight calls the handler is in-frame with
\* an empty buffer (cursor 0), and the handler stays in-frame while the bits
\* that follow are appended.
C22_StatePersistsAcrossCalls ==
    InOpenFrame =>
        /\ rxLocals.inFrame
        /\ RxTail = <<>> => rxLocals.frameIndex = 0
        /\ RxTail # <<>> => rxLocals.frameIndex > 0

\* the consecutive 1 bits at the end of a bit sequence
RECURSIVE TrailingOnes(_)
TrailingOnes(bits) ==
    IF bits = <<>> \/ bits[Len(bits)] = 0 THEN 0
    ELSE 1 + TrailingOnes(SubSeq(bits, 1, Len(bits) - 1))

\* C23: in an open frame the 0 that follows five consecutive logical 1 bits
\* is discarded (the cursor does not advance) and the counter is reset;
\* every other bit is appended, so the cursor is the number of de-stuffed
\* bits received since the flag.
C23_ReceiveDestuffing ==
    InOpenFrame =>
        /\ rxLocals.frameIndex = Len(Destuff(RxTail))
        /\ rxLocals.oneCount = TrailingOnes(RxTail)

\* C24: a frame that is aborted, or whose CRC does not match, is not passed
\* to sendKISSpacket, and the well-formed frame that follows it is.
C24_NextFrameSurvivesFailure ==
    (rxSrc.kind = "failed" /\ RxDone) => kissOut = <<rxSrc.payload>>

Stuffed == op \in {"ax25Encode", "encodeAX25"}

\* C1: between the opening and the closing flag byte the stuffed output of
\* ax25Encode / encodeAX25, read LSB-first, has no run of six or more 1 bits
\* (so the flag pattern 01111110 cannot occur in it).
C1_NoSixOnesInStuffedRegion ==
    Stuffed => ~HasSixOnes(Bits(Region(ret.out)))

\* C2: de-stuffing the bits between the two flag bytes of the output of
\* ax25Encode / encodeAX25 yields exactly the 8*len payload bits.
C2_DestuffRecoversPayload ==
    Stuffed => Destuff(Bits(Region(ret.out))) = Bits(arg)

\* the polarity before output k: the start polarity 1, or output k-1
NrziBefore(out, k) == IF k = 1 THEN 1 ELSE out[k - 1]

\* C6: nrziEncode / encodeNRZI emits 8*len values, each 0 or 1; output k
\* differs from the polarity before it exactly when input bit k is 0.
C6_NrziEncodeTransitions ==
    op \in {"nrziEncode", "encodeNRZI"} =>
        /\ Len(ret) = 8 * Len(arg)
        /\ \A k \in 1..Len(ret) :
              /\ ret[k] \in {0, 1}
              /\ (ret[k] # NrziBefore(ret, k)) <=> (Bits(arg)[k] = 0)

C6_Witness ==
    /\ op = "encodeNRZI"
    /\ Len(arg) >= 2
    /\ \E k \in 1..Len(ret) : Bits(arg)[k] = 0 /\ ret[k] # NrziBefore(ret, k)
    /\ \E k \in 1..Len(ret) : Bits(arg)[k] = 1 /\ ret[k] = NrziBefore(ret, k)

\* C7: crc16_ccitt over a payload followed by its own CRC (two bytes, high
\* byte first) equals the check constant 0xF0B8.
C7_CrcOfAppendedIsCheckConstant ==
    op = "crcAppended" => ret.check = CrcResidue

\* C8: flipping any single bit of a non-empty payload changes crc16_ccitt.
C8_SingleBitFlipChangesCrc ==
    op = "crcFlipped" => ret.crcFlipped # ret.crc

C8_Witness ==
    /\ op = "crcFlipped"
    /\ Len(arg) >= 3
    /\ ret.flipped[1] # arg[1]
    /\ ret.crcFlipped # ret.crc

\* the bits of a byte sequence, most significant bit of each byte first
MsbBits(bytes) ==
    [k \in 1..(8 * Len(bytes)) |-> BitOf(bytes[((k - 1) \div 8) + 1], 7 - ((k - 1) % 8))]

\* the bit-serial CRC register after one message bit: the bit leaving the
\* register, XORed with the message bit, decides whether the polynomial
\* 0x1021 is subtracted
CrcRefStep(reg, bit) ==
    LET shifted == (reg * 2) % 65536
    IN  IF (BitOf(reg, 15) + bit) % 2 = 1 THEN Xor(shifted, CrcPoly) ELSE shifted

\* the register after the message bits k.. from the value reg
RECURSIVE CrcRefFrom(_, _, _)
CrcRefFrom(bits, k, reg) ==
    IF k > Len(bits) THEN reg
    ELSE LET r == CrcRefStep(reg, bits[k])
         IN  IF Evaluated(r) THEN CrcRefFrom(bits, k + 1, r) ELSE r

\* CRC-16-CCITT, bit-serial: initial value 0xFFFF, no final XOR
CrcRef(bytes) == CrcRefFrom(MsbBits(bytes), 1, CrcInit)

\* C31: crc16_ccitt is CRC-16-CCITT (polynomial 0x1021, initial value 0xFFFF,
\* most significant bit first, no final XOR): its result is the bit-serial
\* reference modulo 2^16, a value in 0..0xFFFF, and 0xFFFF for the empty
\* input.
C31_CrcMatchesReference ==
    op = "crcAppended" =>
        /\ ret.crc = CrcRef(arg)
        /\ ret.check = CrcRef(ret.ext)
        /\ ret.crc \in 0..65535
        /\ ret.check \in 0..65535
        /\ arg = <<>> => ret.crc = CrcInit

\* the CRC of a buffer of several bytes, the last with its top bit set
C31_Witness ==
    /\ op = "crcAppended"
    /\ Len(arg) >= 2
    /\ arg[Len(arg)] >= 128
    /\ ret.crc = CrcRef(arg)
    /\ ret.crc # CrcInit

(***************************************************************************)
(* The transmit side: pins, sample timer and DAC                           *)
(***************************************************************************)
MaxTxLen == 1               \* longest KISS frame (bytes) or bit array (bits) of a call

PTT_PIN == 4                \* configuration.h
PTT_LED == 2
TIMER_FREQ == 10000000      \* APB_CLK_FREQ / TIMER_DIVIDER: 80 MHz / 8
MARK_FREQ == 1200           \* tone of a 1 bit
SPACE_FREQ == 2200          \* tone of a 0 bit
SAMPLES_PER_CYCLE == 32     \* entries of a wave table
DAC_MIDPOINT == 128         \* dacWrite(.., 128)
DAC_HALF_MAX == 127         \* MAX_DAC_VALUE / 2, AFSK_DAC_MAX_VALUE / 2
BAUD_RATE == 1200           \* AFSK_BAUD_RATE, DEFAULT_BAUD_RATE
AMPLITUDE == 8              \* AFSK_AMPLITUDE, DEFAULT_AMPLITUDE 0.8f, in tenths

\* digitalWrite(pin, level) as far as the two PTT outputs go
digitalWrite(h, pin, level) ==
    IF pin = PTT_PIN THEN [h EXCEPT !.ptt = level]
    ELSE IF pin = PTT_LED THEN [h EXCEPT !.led = level]
    ELSE h

timerAlarmWrite(h, ticks) == [h EXCEPT !.period = ticks]
timerAlarmEnable(h) == [h EXCEPT !.alarm = TRUE]
\* a timerAlarmDisable that leaves the alarm running
timerAlarmDisable_stillOn(h) == h
timerAlarmDisable(h) == [h EXCEPT !.alarm = FALSE]

\* a fixed level written to the DAC
dacWrite(h, value) == [h EXCEPT !.dac = [src |-> "level", value |-> value]]

\* entry `index` of a wave table written to the DAC
dacWriteSample(h, index) == [h EXCEPT !.dac = [src |-> "wave", index |-> index]]

\* timer ticks between two samples of a tone: TICKS_PER_SECOND / (freq *
\* SAMPLES_PER_CYCLE), calculateTimerTicks(freq), TIMER_FREQ / (freq *
\* _config.samplesPerCycle)
calculateTimerTicks(freq, samplesPerCycle) == TIMER_FREQ \div (freq * samplesPerCycle)

\* the tone of a bit: 1 = mark, 0 = space
ToneOf(bit) == IF bit # 0 THEN MARK_FREQ ELSE SPACE_FREQ

\* the tone of a bit in the configuration d:
\* bits[bit] ? afsk_config.markFreq : afsk_config.spaceFreq
ToneFreq(d, bit) == IF bit # 0 THEN d.markFreq ELSE d.spaceFreq

\* setPTT(enable): each output is written only when its pin is configured
\* (>= 0).  First a setPTT that only ever keys: setPTT(false) does nothing
setPTT_keyOnly(h, d, enable) ==
    LET h1 == IF d.pttPin >= 0 THEN digitalWrite(h, d.pttPin, 1) ELSE h
    IN  IF ~enable THEN h
        ELSE IF d.pttLedPin >= 0 THEN digitalWrite(h1, d.pttLedPin, 1) ELSE h1

\* setPTT(enable) of afskEncoder.cpp and AFSKEncoderModern
setPTT(h, d, enable) ==
    LET level == IF enable THEN 1 ELSE 0
        h1    == IF d.pttPin >= 0 THEN digitalWrite(h, d.pttPin, level) ELSE h
    IN  IF d.pttLedPin >= 0 THEN digitalWrite(h1, d.pttLedPin, level) ELSE h1

(***************************************************************************)
(* Tasks calling the transmit entry points                                 *)
(***************************************************************************)
\* KISS frames over the bytes 0 and 1, and bit arrays, up to MaxTxLen long
TxData == SeqsUpTo({0, 1}, MaxTxLen)

\* task c is between keying the transmitter (or starting the tones) and
\* unkeying it
InSession(c) == pc[c] \in {"settle", "send", "wait", "tail"}

\* the tasks inside a call
Calling == {c \in Tasks : pc[c] # "idle"}

\* task c enters fn(data): what is remembered of the call
Enter(c, fn, data) ==
    /\ pc[c] = "idle"
    /\ c \in callers
    /\ req' = [req EXCEPT ![c] = [fn |-> fn, data |-> data]]

\* task c returns st because of `reason`: its locals are gone
ReturnFor(c, st, reason) ==
    /\ pc' = [pc EXCEPT ![c] = "idle"]
    /\ status' = [status EXCEPT ![c] = st]
    /\ why' = [why EXCEPT ![c] = reason]
    /\ loc' = [loc EXCEPT ![c] = NoLocals]

\* task c returns st at the end of its call
Return(c, st) == ReturnFor(c, st, "none")

\* the call of task c fails with st: the encoder was not set up
\* ("notInitialized"), a transmission is in progress ("busy"), the frame is
\* malformed ("input"), malloc failed ("alloc"), a buffer is too small
\* ("overflow")
Reject(c, st, reason) == ReturnFor(c, st, reason)

\* task c goes on to `next` inside its call
Goto(c, next) ==
    /\ pc' = [pc EXCEPT ![c] = next]
    /\ UNCHANGED <<status, why>>

\* the step belongs to the encoder v; the rest of the module's state stays
Linked(v) ==
    /\ variant = v
    /\ UNCHANGED <<variant, callers, encVars, rxVars, cacheVars>>

InitTasks(cs, v) ==
    /\ EncIdle
    /\ CacheIdle
    /\ RxIdle
    /\ variant = v
    /\ callers = cs
    /\ TasksIdle
    /\ hw = HwReset

(***************************************************************************)
(* afskEncode.cpp: setupAFSKencoder, onTimer, afskSend, transmitAX25       *)
(***************************************************************************)
\* the globals: timer (NULL until setup) and onTimer's static index
LegacyDrv == [timer |-> FALSE, currentSampleIdx |-> 0]

\* setupAFSKencoder(), called once from setup()
setupAFSKencoder ==
    /\ Linked("legacy")
    /\ ~drv.timer
    /\ hw' = dacWrite(digitalWrite(digitalWrite(hw, PTT_PIN, 0), PTT_LED, 0), DAC_MIDPOINT)
    /\ drv' = [drv EXCEPT !.timer = TRUE]
    /\ UNCHANGED <<pc, req, loc, status, why>>

\* the timer interrupt: one wave table entry to the DAC
onTimer ==
    /\ Linked("legacy")
    /\ hw.alarm
    /\ hw' = dacWriteSample(hw, drv.currentSampleIdx)
    /\ drv' = [drv EXCEPT !.currentSampleIdx = (@ + 1) % SAMPLES_PER_CYCLE]
    /\ UNCHANGED <<pc, req, loc, status, why>>

\* transmitAX25(kissFrame, len) up to the first delay(50)
afskEncode_transmitAX25(c) ==
    /\ Linked("legacy")
    /\ drv.timer
    /\ \E kissFrame \in TxData, wraps \in BOOLEAN :
          /\ Enter(c, "transmitAX25", kissFrame)
          /\ IF Len(kissFrame) = 0 \/ kissFrame[1] # 0
             THEN /\ Reject(c, "void", "input")
                  /\ UNCHANGED hw
             ELSE /\ loc' = [loc EXCEPT ![c] =
                       [bits |-> nrziEncode(ax25Encode(Tail(kissFrame), wraps)), bit |-> 0]]
                  /\ hw' = digitalWrite(digitalWrite(hw, PTT_PIN, 1), PTT_LED, 1)
                  /\ Goto(c, "settle")
    /\ UNCHANGED drv

\* afskSend(bits, len) called directly (the test mode of loop())
afskEncode_afskSend(c) ==
    /\ Linked("legacy")
    /\ drv.timer
    /\ \E bits \in TxData :
          /\ Enter(c, "afskSend", bits)
          /\ loc' = [loc EXCEPT ![c] = [bits |-> bits, bit |-> 0]]
    /\ hw' = timerAlarmEnable(hw)
    /\ Goto(c, "send")
    /\ UNCHANGED drv

\* the delay is over: transmitAX25 calls afskSend(nrzi, nrziLen)
afskEncode_afskSendCalled(c) ==
    /\ Linked("legacy")
    /\ pc[c] = "settle"
    /\ hw' = timerAlarmEnable(hw)
    /\ Goto(c, "send")
    /\ UNCHANGED <<req, loc, drv>>

\* one turn of the bit loop of afskSend: the period of the bit's tone is
\* programmed, then the task waits one bit time
afskEncode_afskSendBit(c) ==
    /\ Linked("legacy")
    /\ pc[c] = "send"
    /\ loc[c].bit < Len(loc[c].bits)
    /\ hw' = timerAlarmWrite(hw, calculateTimerTicks(ToneOf(loc[c].bits[loc[c].bit + 1]),
                                                     SAMPLES_PER_CYCLE))
    /\ loc' = [loc EXCEPT ![c].bit = @ + 1]
    /\ UNCHANGED <<pc, req, status, why, drv>>

\* after the last bit: timer off, DAC to the midpoint; afskSend returns
afskEncode_afskSendDone(c) ==
    /\ Linked("legacy")
    /\ pc[c] = "send"
    /\ loc[c].bit = Len(loc[c].bits)
    /\ hw' = dacWrite(timerAlarmDisable(hw), DAC_HALF_MAX)
    /\ IF req[c].fn = "afskSend"
       THEN Return(c, "void")
       ELSE Goto(c, "tail") /\ UNCHANGED loc
    /\ UNCHANGED <<req, drv>>

\* after the second delay(50): PTT and LED low, transmitAX25 returns
afskEncode_unkey(c) ==
    /\ Linked("legacy")
    /\ pc[c] = "tail"
    /\ hw' = digitalWrite(digitalWrite(hw, PTT_PIN, 0), PTT_LED, 0)
    /\ Return(c, "void")
    /\ UNCHANGED <<req, drv>>

(***************************************************************************)
(* afskEncoder.cpp: setupAFSKEncoder, afskTimerISR, afskSend, transmitAX25 *)
(***************************************************************************)
\* afsk_config and the hardware resources as their initialisers leave them
EncoderDrv ==
    [pttPin |-> -1, pttLedPin |-> -1, markFreq |-> MARK_FREQ,
     spaceFreq |-> SPACE_FREQ, baudRate |-> BAUD_RATE, amplitude |-> AMPLITUDE,
     samplesPerCycle |-> SAMPLES_PER_CYCLE,
     initialized |-> FALSE, began |-> "none", transmitting |-> FALSE,
     timer |-> FALSE, waveTable |-> FALSE, tableLen |-> 0,
     currentSampleIndex |-> 0, timerEnabled |-> FALSE]

\* setupAFSKEncoder(): timerBegin and malloc may fail
setupAFSKEncoder ==
    /\ Linked("encoder")
    /\ ~drv.initialized
    /\ \E timerOk \in BOOLEAN, mallocOk \in BOOLEAN :
          IF ~timerOk
          THEN /\ drv' = [drv EXCEPT !.timer = FALSE,
                                     !.began = "AFSK_ERROR_TIMER_INIT"]
               /\ UNCHANGED hw
          ELSE IF ~mallocOk
          THEN /\ drv' = [drv EXCEPT !.timer = TRUE, !.waveTable = FALSE,
                                     !.began = "AFSK_ERROR_DAC_INIT"]
               /\ UNCHANGED hw
          ELSE /\ drv' = [drv EXCEPT !.timer = TRUE, !.waveTable = TRUE,
                                     !.tableLen = drv.samplesPerCycle,
                                     !.initialized = TRUE, !.began = "AFSK_SUCCESS"]
               /\ hw' = dacWrite(setPTT(hw, drv, FALSE), DAC_HALF_MAX)
    /\ UNCHANGED <<pc, req, loc, status, why>>

\* the timer interrupt
afskTimerISR ==
    /\ Linked("encoder")
    /\ hw.alarm
    /\ IF ~drv.timerEnabled \/ ~drv.waveTable
       THEN UNCHANGED <<hw, drv>>
       ELSE /\ hw' = dacWriteSample(hw, drv.currentSampleIndex)
            /\ drv' = [drv EXCEPT !.currentSampleIndex =
                          IF @ + 1 >= drv.samplesPerCycle THEN 0 ELSE @ + 1]
    /\ UNCHANGED <<pc, req, loc, status, why>>

\* afskSend(bits, len) from its entry to the first turn of the bit loop
afskEncoder_afskSendEntry(c, bits) ==
    IF ~drv.initialized
    THEN /\ Reject(c, "AFSK_ERROR_NOT_INITIALIZED", "notInitialized")
         /\ UNCHANGED <<hw, drv>>
    ELSE IF drv.transmitting
    THEN /\ Reject(c, "AFSK_ERROR_INVALID_PARAMS", "busy")
         /\ UNCHANGED <<hw, drv>>
    ELSE /\ drv' = [drv EXCEPT !.transmitting = TRUE, !.timerEnabled = TRUE]
         /\ hw' = timerAlarmEnable(hw)
         /\ loc' = [loc EXCEPT ![c] = [bits |-> bits, bit |-> 0]]
         /\ Goto(c, "send")

\* transmitAX25(kissFrame, len): each byte becomes 8 bits, LSB first, and
\* the bits go to afskSend; malloc may fail
afskEncoder_transmitAX25(c) ==
    /\ Linked("encoder")
    /\ \E kissFrame \in TxData, mallocOk \in BOOLEAN :
          /\ Enter(c, "transmitAX25", kissFrame)
          /\ IF Len(kissFrame) = 0 \/ ~mallocOk
             THEN /\ Reject(c, "AFSK_ERROR_INVALID_PARAMS",
                            IF Len(kissFrame) = 0 THEN "input" ELSE "alloc")
                  /\ UNCHANGED <<hw, drv>>
             ELSE afskEncoder_afskSendEntry(c, Bits(kissFrame))

\* afskSend(bits, len) called directly (the test mode of loop())
afskEncoder_afskSend(c) ==
    /\ Linked("encoder")
    /\ \E bits \in TxData :
          /\ Enter(c, "afskSend", bits)
          /\ afskEncoder_afskSendEntry(c, bits)

\* one turn of the bit loop: setTimerFrequency(freq), then one bit time
afskEncoder_afskSendBit(c) ==
    /\ Linked("encoder")
    /\ pc[c] = "send"
    /\ loc[c].bit < Len(loc[c].bits)
    /\ hw' = timerAlarmWrite(hw, calculateTimerTicks(ToneFreq(drv, loc[c].bits[loc[c].bit + 1]),
                                                     drv.samplesPerCycle))
    /\ loc' = [loc EXCEPT ![c].bit = @ + 1]
    /\ UNCHANGED <<pc, req, status, why, drv>>

\* after the last bit: timer off, DAC to the midpoint, transmitting cleared;
\* afskSend returns AFSK_SUCCESS and transmitAX25 passes it on
afskEncoder_afskSendDone(c) ==
    /\ Linked("encoder")
    /\ pc[c] = "send"
    /\ loc[c].bit = Len(loc[c].bits)
    /\ hw' = dacWrite(timerAlarmDisable(hw), DAC_HALF_MAX)
    /\ drv' = [drv EXCEPT !.timerEnabled = FALSE, !.transmitting = FALSE]
    /\ Return(c, "AFSK_SUCCESS")
    /\ UNCHANGED req

(***************************************************************************)
(* AFSKEncoderModern (afskEncodeModern.cpp)                                *)
(***************************************************************************)
\* the object after its constructor.  bitBuffer is the pointer _bitBuffer:
\* -1 for nullptr, 0 for the static nrziBuffer of transmitPacket, c > 0 for
\* the array task c passed to transmitBits
ModernDrv ==
    [dacPin |-> 25, pttPin |-> -1, pttLedPin |-> -1, markFreq |-> MARK_FREQ,
     spaceFreq |-> SPACE_FREQ, baudRate |-> BAUD_RATE, amplitude |-> AMPLITUDE,
     samplesPerCycle |-> SAMPLES_PER_CYCLE, tableLen |-> 0, initialized |-> FALSE,
     began |-> "none", timer |-> FALSE, tables |-> FALSE,
     currentTable |-> 0, sampleIndex |-> 0, isTransmitting |-> FALSE,
     bitIndex |-> 0, totalBits |-> 0, bitBuffer |-> -1, nrziBuffer |-> <<>>]

\* begin(dacPin, pttPin, pttLedPin) with initializeHardware and
\* generateWaveTables; timerBegin and malloc may fail
begin ==
    /\ Linked("modern")
    /\ ~drv.initialized
    /\ \E dacPin \in {25, 27}, pttPin \in {-1, PTT_PIN}, pttLedPin \in {-1, PTT_LED},
          timerOk \in BOOLEAN, mallocOk \in BOOLEAN :
          LET d1 == [drv EXCEPT !.dacPin = dacPin, !.pttPin = pttPin,
                                !.pttLedPin = pttLedPin]
              h1 == dacWrite(setPTT(hw, d1, FALSE), DAC_MIDPOINT)
          IN  IF dacPin # 25 /\ dacPin # 26
              THEN /\ drv' = [drv EXCEPT !.began = "ERROR_INVALID_PIN"]
                   /\ UNCHANGED hw
              ELSE IF ~timerOk
              THEN /\ drv' = [d1 EXCEPT !.timer = FALSE, !.began = "ERROR_TIMER_INIT"]
                   /\ hw' = h1
              ELSE IF ~mallocOk
              THEN /\ drv' = [d1 EXCEPT !.timer = FALSE, !.tables = FALSE,
                                        !.began = "ERROR_DAC_INIT"]
                   /\ hw' = h1
              ELSE /\ drv' = [d1 EXCEPT !.timer = TRUE, !.tables = TRUE,
                                        !.tableLen = drv.samplesPerCycle,
                                        !.initialized = TRUE, !.began = "SUCCESS"]
                   /\ hw' = h1
    /\ UNCHANGED <<pc, req, loc, status, why>>

\* writing `new` from the start of a buffer that holds `old`
Overwrite(old, new) == new \o SubSeq(old, Len(new) + 1, Len(old))

\* a read of _bitBuffer that gives bit 0 whatever the index
BitBufferAt_first(d, i) ==
    LET array == IF d.bitBuffer = 0 THEN d.nrziBuffer ELSE loc[d.bitBuffer].bits
    IN  IF 0 < Len(array) THEN {array[1]} ELSE {0, 1}

\* the values a read of _bitBuffer[i] can give: the entry, or anything when
\* the read is past the end of what the pointer refers to
BitBufferAt(d, i) ==
    LET array == IF d.bitBuffer = 0 THEN d.nrziBuffer ELSE loc[d.bitBuffer].bits
    IN  IF i < Len(array) THEN {array[i + 1]} ELSE {0, 1}

\* a rejection that keys the transmitter before it returns
Modern_reject_keyed(c, st, reason) ==
    /\ Reject(c, st, reason)
    /\ hw' = setPTT(hw, drv, TRUE)
    /\ UNCHANGED drv

\* transmitPacket / transmitBits reject the call with st
Modern_reject(c, st, reason) ==
    /\ Reject(c, st, reason)
    /\ UNCHANGED <<hw, drv>>

\* transmitPacket(kissFrame, length) up to delay(10)
Modern_transmitPacket(c) ==
    /\ Linked("modern")
    /\ \E kissFrame \in TxData, wraps \in BOOLEAN :
          /\ Enter(c, "transmitPacket", kissFrame)
          /\ IF ~drv.initialized THEN Modern_reject(c, "ERROR_NOT_INITIALIZED", "notInitialized")
             ELSE IF drv.isTransmitting
             THEN Modern_reject(c, "ERROR_INVALID_PARAMS", "busy")
             ELSE IF Len(kissFrame) = 0 \/ kissFrame[1] # 0
             THEN Modern_reject(c, "ERROR_INVALID_PARAMS", "input")
             ELSE LET stuffed == encodeAX25(Tail(kissFrame), StuffedBufferSize, wraps)
                      nrzi    == encodeNRZI(stuffed.out, NrziBufferSize)
                  IN  IF stuffed.len = 0 \/ Len(nrzi) = 0
                      THEN Modern_reject(c, "ERROR_BUFFER_OVERFLOW", "overflow")
                      ELSE /\ drv' = [drv EXCEPT !.nrziBuffer = Overwrite(@, nrzi)]
                           /\ loc' = [loc EXCEPT ![c] =
                                         [bits |-> <<>>, bit |-> 0, ptr |-> 0,
                                          len |-> Len(nrzi)]]
                           /\ hw' = setPTT(hw, drv, TRUE)
                           /\ Goto(c, "settle")

\* transmitBits(bits, length) up to delay(10)
Modern_transmitBits(c) ==
    /\ Linked("modern")
    /\ \E bits \in TxData :
          /\ Enter(c, "transmitBits", bits)
          /\ IF ~drv.initialized THEN Modern_reject(c, "ERROR_NOT_INITIALIZED", "notInitialized")
             ELSE IF drv.isTransmitting
             THEN Modern_reject(c, "ERROR_INVALID_PARAMS", "busy")
             ELSE /\ loc' = [loc EXCEPT ![c] =
                                [bits |-> bits, bit |-> 0, ptr |-> c, len |-> Len(bits)]]
                  /\ hw' = setPTT(hw, drv, TRUE)
                  /\ Goto(c, "settle")
                  /\ UNCHANGED drv

\* a call of the timer API with _timer == nullptr dereferences a null
\* pointer: the chip traps, no task runs any further and the pins stay as
\* they are
Trap ==
    /\ pc' = [c \in Tasks |-> "trapped"]
    /\ UNCHANGED <<req, loc, status, why, hw, drv>>

\* after delay(10): startTransmission(bits, bitCount).  With a null _timer
\* timerAlarmWrite and timerAlarmEnable either trap or leave the alarm alone
Modern_startTransmission(c) ==
    /\ Linked("modern")
    /\ pc[c] = "settle"
    /\ LET d1 == [drv EXCEPT !.bitBuffer = loc[c].ptr, !.totalBits = loc[c].len,
                             !.bitIndex = 0, !.sampleIndex = 0,
                             !.isTransmitting = TRUE]
       IN  \E first \in BitBufferAt(d1, 0) :
              IF drv.timer
              THEN /\ drv' = [d1 EXCEPT !.currentTable = IF first # 0 THEN 0 ELSE 1]
                   /\ hw' = timerAlarmEnable(timerAlarmWrite(hw,
                             calculateTimerTicks(ToneFreq(drv, first), drv.samplesPerCycle)))
                   /\ Goto(c, "wait")
                   /\ UNCHANGED <<req, loc>>
              ELSE \/ Trap
                   \/ /\ drv' = [d1 EXCEPT !.currentTable = IF first # 0 THEN 0 ELSE 1]
                      /\ Goto(c, "wait")
                      /\ UNCHANGED <<req, loc, hw>>

\* handleTimerInterrupt(): one sample, and the next bit once the bit time
\* has elapsed
handleTimerInterrupt ==
    /\ Linked("modern")
    /\ hw.alarm
    /\ IF ~drv.isTransmitting \/ drv.bitBuffer = -1
       THEN UNCHANGED <<hw, drv>>
       ELSE LET h1 == dacWriteSample(hw, drv.sampleIndex)
                d1 == [drv EXCEPT !.sampleIndex =
                          IF @ + 1 >= drv.samplesPerCycle THEN 0 ELSE @ + 1]
                d2 == [d1 EXCEPT !.bitIndex = @ + 1]
            IN  \E elapsed \in BOOLEAN :
                      IF ~elapsed
                      THEN hw' = h1 /\ drv' = d1
                      ELSE IF d2.bitIndex >= d2.totalBits
                      THEN /\ drv' = [d2 EXCEPT !.isTransmitting = FALSE]
                           /\ hw' = dacWrite(timerAlarmDisable(h1), DAC_MIDPOINT)
                      ELSE \E next \in BitBufferAt(d2, d2.bitIndex) :
                              /\ drv' = [d2 EXCEPT !.currentTable =
                                            IF next # 0 THEN 0 ELSE 1]
                              /\ hw' = timerAlarmWrite(h1,
                                    calculateTimerTicks(ToneFreq(drv, next), drv.samplesPerCycle))
    /\ UNCHANGED <<pc, req, loc, status, why>>

\* while (_isTransmitting) delay(1) is left
Modern_waitDone(c) ==
    /\ Linked("modern")
    /\ pc[c] = "wait"
    /\ ~drv.isTransmitting
    /\ Goto(c, "tail")
    /\ UNCHANGED <<req, loc, hw, drv>>

\* after the second delay(10): setPTT(false), return SUCCESS
Modern_unkey(c) ==
    /\ Linked("modern")
    /\ pc[c] = "tail"
    /\ hw' = setPTT(hw, drv, FALSE)
    /\ Return(c, "SUCCESS")
    /\ UNCHANGED <<req, drv>>

\* end(): stopTransmission() and cleanupResources(), called by a task that
\* is not inside a transmit call
end ==
    /\ Linked("modern")
    /\ \A c \in callers : pc[c] = "idle"
    /\ drv.initialized
    /\ IF drv.timer
       THEN /\ hw' = dacWrite(timerAlarmDisable(hw), DAC_MIDPOINT)
            /\ drv' = [drv EXCEPT !.isTransmitting = FALSE, !.timer = FALSE,
                                   !.tables = FALSE, !.tableLen = 0,
                                   !.initialized = FALSE]
            /\ UNCHANGED <<pc, req, loc, status, why>>
       ELSE \/ Trap
            \/ /\ hw' = dacWrite(hw, DAC_MIDPOINT)
               /\ drv' = [drv EXCEPT !.isTransmitting = FALSE, !.tables = FALSE,
                                      !.tableLen = 0, !.initialized = FALSE]
               /\ UNCHANGED <<pc, req, loc, status, why>>

(***************************************************************************)
(* SpecTx: one task; SpecTxConc: two tasks                                 *)
(***************************************************************************)
\* the state of encoder v before its setup
DrvOf(v) == IF v = "legacy" THEN LegacyDrv
            ELSE IF v = "encoder" THEN EncoderDrv
            ELSE ModernDrv

\* one task (loop()), any of the three encoders, the default parameters
InitTx == \E v \in {"legacy", "encoder", "modern"} : InitTasks({1}, v) /\ drv = DrvOf(v)

NextTx ==
    \/ setupAFSKencoder
    \/ onTimer
    \/ setupAFSKEncoder
    \/ afskTimerISR
    \/ begin
    \/ handleTimerInterrupt
    \/ \E c \in Tasks :
          \/ afskEncode_transmitAX25(c)
          \/ afskEncode_afskSend(c)
          \/ afskEncode_afskSendCalled(c)
          \/ afskEncode_afskSendBit(c)
          \/ afskEncode_afskSendDone(c)
          \/ afskEncode_unkey(c)
          \/ afskEncoder_transmitAX25(c)
          \/ afskEncoder_afskSend(c)
          \/ afskEncoder_afskSendBit(c)
          \/ afskEncoder_afskSendDone(c)
          \/ Modern_transmitPacket(c)
          \/ Modern_transmitBits(c)
          \/ Modern_startTransmission(c)
          \/ Modern_waitDone(c)
          \/ Modern_unkey(c)

SpecTx == InitTx /\ [][NextTx]_vars

\* samplesPerCycle as setAFSKParameters / setParameters were given it for the
\* two-task runs (a power of two; the default is SAMPLES_PER_CYCLE)
ConfiguredSamples == 4

\* two tasks, the encoders that test a busy flag (afskEncoder.cpp and
\* AFSKEncoderModern), the parameters set before the setup
InitTxConc ==
    \E v \in {"encoder", "modern"} :
       /\ InitTasks(Tasks, v)
       /\ drv = [DrvOf(v) EXCEPT !.samplesPerCycle = ConfiguredSamples]

NextTxConc ==
    \/ setupAFSKEncoder
    \/ afskTimerISR
    \/ begin
    \/ handleTimerInterrupt
    \/ \E c \in Tasks :
          \/ afskEncoder_transmitAX25(c)
          \/ afskEncoder_afskSend(c)
          \/ afskEncoder_afskSendBit(c)
          \/ afskEncoder_afskSendDone(c)
          \/ Modern_transmitPacket(c)
          \/ Modern_transmitBits(c)
          \/ Modern_startTransmission(c)
          \/ Modern_waitDone(c)
          \/ Modern_unkey(c)

SpecTxConc == InitTxConc /\ [][NextTxConc]_vars

(***************************************************************************)
(* Properties of the transmit entry points (SpecTx, SpecTxConc)            *)
(***************************************************************************)
\* a KISS frame that is empty or whose command byte is not 0x00
InvalidFrame(frame) == Len(frame) = 0 \/ frame[1] # 0

\* the last call of task c was a transmit request with such a frame
InvalidRequest(c) ==
    req[c].fn \in {"transmitAX25", "transmitPacket"} /\ InvalidFrame(req[c].data)

\* C9: a transmit request (transmitAX25 of afskEncode.cpp, transmitAX25 of
\* afskEncoder.cpp, transmitPacket) with length zero or a first byte other
\* than 0x00 is rejected: the call returns at once without success, and
\* PTT and the PTT LED are not driven high, the sample timer is not enabled
\* and no wave sample is on the DAC.
C9_InvalidFrameRejected ==
    \A c \in callers :
        InvalidRequest(c) =>
            /\ pc[c] = "idle"
            /\ status[c] \notin {"SUCCESS", "AFSK_SUCCESS"}
            /\ hw.ptt = 0
            /\ hw.led = 0
            /\ ~hw.alarm
            /\ hw.dac.src # "wave"

\* C10: at most one transmission session is active at any time: two tasks
\* are never both between the start of a transmission (PTT assertion) and
\* its end (PTT release).
C10_OneSessionAtATime ==
    \A c1 \in Tasks, c2 \in Tasks : (InSession(c1) /\ InSession(c2)) => c1 = c2

\* the values of enum Status / afsk_status_t that report a failed hardware
\* initialisation
InitFailureStatuses ==
    {"ERROR_INVALID_PIN", "ERROR_TIMER_INIT", "ERROR_DAC_INIT",
     "AFSK_ERROR_INVALID_PIN", "AFSK_ERROR_TIMER_INIT", "AFSK_ERROR_DAC_INIT"}

\* C11: the status of a failed transmit request tells the failure kinds
\* apart: a request rejected because a transmission is in progress returns
\* a status different from that of a request rejected for a malformed frame,
\* and neither is a hardware-initialisation failure status.
C11_FailureKindsDistinct ==
    \A c1 \in Tasks, c2 \in Tasks :
        /\ (why[c1] = "busy" /\ why[c2] = "input") => status[c1] # status[c2]
        /\ why[c1] \in {"busy", "input"} => status[c1] \notin InitFailureStatuses

\* task c is inside a transmit request (afskSend called on its own, the test
\* mode of loop(), is not one)
Transmitting(c) ==
    pc[c] # "idle" /\ req[c].fn \in {"transmitAX25", "transmitPacket", "transmitBits"}

\* the sample timer runs, or the DAC holds a wave sample
Modulating == hw.alarm \/ hw.dac.src = "wave"

\* the encoder has a PTT output / a PTT LED: PTT_PIN and PTT_LED of the
\* board, unless begin() was told otherwise
PttConfigured == variant = "modern" => drv.pttPin >= 0
LedConfigured == variant = "modern" => drv.pttLedPin >= 0

\* C12: whenever, during a transmit request, the sample timer alarm is
\* enabled or a wave sample is on the DAC, PTT is high, and so is the PTT
\* LED when configured.
C12_PttHighWhileModulating ==
    ((\E c \in callers : Transmitting(c)) /\ Modulating) =>
        /\ PttConfigured => hw.ptt = 1
        /\ LedConfigured => hw.led = 1

\* the value each encoder writes to the DAC as the midpoint
MidpointOf(v) == IF v = "modern" THEN DAC_MIDPOINT ELSE DAC_HALF_MAX

\* the DAC holds the midpoint written by the encoder in use
DacAtMidpoint == hw.dac = [src |-> "level", value |-> MidpointOf(variant)]

\* every bit of the transmission in progress has had its bit time
LastBitElapsed ==
    IF variant = "modern"
    THEN drv.bitIndex >= drv.totalBits
    ELSE \E c \in callers : pc[c] = "send" /\ loc[c].bit = Len(loc[c].bits)

\* C13: the end of a transmission is ordered: the sample timer is disabled
\* only once the last bit's time has elapsed and the same step leaves the DAC
\* at the midpoint; a wave sample reaches the DAC only while the timer is
\* enabled; and PTT goes low only with the timer disabled and the DAC at the
\* midpoint.
C13_EndOfTransmissionOrder ==
    [][ /\ (hw.alarm /\ ~hw'.alarm) =>
              /\ IF variant = "modern" THEN LastBitElapsed' ELSE LastBitElapsed
              /\ DacAtMidpoint'
        /\ (hw'.dac # hw.dac /\ hw'.dac.src = "wave") => hw.alarm
        /\ (hw.ptt = 1 /\ hw'.ptt = 0) => (~hw.alarm /\ ~hw'.alarm /\ DacAtMidpoint /\ DacAtMidpoint')
      ]_vars

\* a transmit request that keyed the transmitter, sent at least one bit and
\* has returned: PTT is low again
C13_Witness ==
    /\ variant \in {"legacy", "modern"}
    /\ PttConfigured
    /\ pc[1] = "idle"
    /\ req[1].fn \in {"transmitAX25", "transmitPacket", "transmitBits"}
    /\ status[1] \in {"void", "SUCCESS"}
    /\ why[1] = "none"
    /\ hw.ptt = 0
    /\ hw.period > 0
    /\ DacAtMidpoint

(***************************************************************************)
(* SpecTxLive: SpecTx with a running clock and a firing timer interrupt    *)
(***************************************************************************)
\* the steps of task c inside a call: a delay or a bit time ends and the
\* code after it runs
Continue(c) ==
    \/ afskEncode_afskSendCalled(c)
    \/ afskEncode_afskSendBit(c)
    \/ afskEncode_afskSendDone(c)
    \/ afskEncode_unkey(c)
    \/ afskEncoder_afskSendBit(c)
    \/ afskEncoder_afskSendDone(c)
    \/ Modern_startTransmission(c)
    \/ Modern_waitDone(c)
    \/ Modern_unkey(c)

\* the timer interrupt that finds the bit time elapsed
BitTimeElapses == handleTimerInterrupt /\ drv'.bitIndex = drv.bitIndex + 1

\* delay(), micros() and the alarm: a waiting task is resumed, and while the
\* alarm is enabled an interrupt eventually sees elapsed >= bitDuration
TxFairness ==
    /\ \A c \in Tasks : WF_vars(Continue(c))
    /\ WF_vars(BitTimeElapses)

SpecTxLive == InitTx /\ [][NextTx]_vars /\ TxFairness

\* no transmission is marked in progress
NotTransmitting ==
    /\ variant = "modern" => ~drv.isTransmitting
    /\ variant = "encoder" => ~drv.transmitting

\* C14: with the clock advancing and the timer interrupt firing, whenever
\* PTT or the PTT LED is high the program reaches a state where both are
\* low, no transmission is in progress and the request has returned.
C14_PttEventuallyReleased ==
    (hw.ptt = 1 \/ hw.led = 1) ~>
        (hw.ptt = 0 /\ hw.led = 0 /\ NotTransmitting /\ \A c \in callers : pc[c] = "idle")

\* PTT and LED are high in the middle of a transmission: the interrupt has
\* already moved on from the first bit
C14_Witness ==
    /\ variant = "modern"
    /\ hw.ptt = 1
    /\ hw.led = 1
    /\ hw.alarm
    /\ drv.isTransmitting
    /\ drv.bitIndex > 0
    /\ pc[1] = "wait"

(***************************************************************************)
(* sendKISSpacket (goertzelFilter.cpp, kissFunctions.cpp,                  *)
(* btKISSfunctions.cpp) and SpecKiss                                       *)
(***************************************************************************)
MaxKissLen == 3

FEND == 192     \* 0xC0 frame end
FESC == 219     \* 0xDB frame escape
TFEND == 220    \* 0xDC transposed FEND
TFESC == 221    \* 0xDD transposed FESC

\* payload bytes: the four special characters, the command byte and a letter
KissAlphabet == {0, 65, FEND, FESC, TFEND, TFESC}

KissPayloads == SeqsUpTo(KissAlphabet, MaxKissLen)

\* one turn of the loop that leaves FEND unescaped
sendKISSpacketByte_fendRaw(b) ==
    IF b = FESC THEN <<FESC, TFESC>> ELSE <<b>>

\* one turn of the loop over data: what is written for data[i]
sendKISSpacketByte(b) ==
    IF b = FEND THEN <<FESC, TFEND>>
    ELSE IF b = FESC THEN <<FESC, TFESC>>
    ELSE <<b>>

\* the loop from index i on (0-based), appended to what was written so far
RECURSIVE sendKISSpacketLoop(_, _, _)
sendKISSpacketLoop(data, i, written) ==
    IF i >= Len(data) THEN written
    ELSE LET w == written \o sendKISSpacketByte(data[i + 1])
         IN  IF Evaluated(w) THEN sendKISSpacketLoop(data, i + 1, w) ELSE w

\* sendKISSpacket of goertzelFilter.cpp and of kissFunctions.cpp: the bytes
\* written to BTSerial
sendKISSpacket(data) ==
    Append(sendKISSpacketLoop(data, 0, <<FEND, 0>>), FEND)

\* sendKISSpacket of btKISSfunctions.cpp: the bytes written to BTSerial (and,
\* the same, to Serial)
btKISS_sendKISSpacket(data) ==
    Append(sendKISSpacketLoop(data, 0, <<FEND>>), FEND)

InitKiss ==
    /\ op = "none"
    /\ arg \in KissPayloads
    /\ ret = <<>>
    /\ RxIdle
    /\ TxIdle

goertzelFilter_sendKISSpacket ==
    /\ op = "none"
    /\ ret' = [bt |-> sendKISSpacket(arg), serial |-> <<>>]
    /\ op' = "goertzelFilter.sendKISSpacket"
    /\ UNCHANGED <<arg, rxVars, txVars, cacheVars>>

kissFunctions_sendKISSpacket ==
    /\ op = "none"
    /\ ret' = [bt |-> sendKISSpacket(arg), serial |-> <<>>]
    /\ op' = "kissFunctions.sendKISSpacket"
    /\ UNCHANGED <<arg, rxVars, txVars, cacheVars>>

btKISSfunctions_sendKISSpacket ==
    /\ op = "none"
    /\ LET written == btKISS_sendKISSpacket(arg)
       IN  ret' = [bt |-> written, serial |-> written]
    /\ op' = "btKISSfunctions.sendKISSpacket"
    /\ UNCHANGED <<arg, rxVars, txVars, cacheVars>>

NextKiss ==
    \/ goertzelFilter_sendKISSpacket
    \/ kissFunctions_sendKISSpacket
    \/ btKISSfunctions_sendKISSpacket

SpecKiss == InitKiss /\ [][NextKiss]_vars

\* a sendKISSpacket has run
KissSent ==
    op \in {"goertzelFilter.sendKISSpacket", "kissFunctions.sendKISSpacket",
            "btKISSfunctions.sendKISSpacket"}

\* the payload bytes that need escaping
Specials(data) == {i \in 1..Len(data) : data[i] \in {FEND, FESC}}

\* `data` with every FEND and FESC replaced by its two-byte escape
RECURSIVE Escaped(_)
Escaped(data) ==
    IF data = <<>> THEN <<>>
    ELSE (IF Head(data) = FEND THEN <<FESC, TFEND>>
          ELSE IF Head(data) = FESC THEN <<FESC, TFESC>>
          ELSE <<Head(data)>>) \o Escaped(Tail(data))

\* C15: every sendKISSpacket writes FEND, the command byte 0x00, the escaped
\* payload and FEND, and nothing else: len + 3 bytes plus one for every
\* payload byte equal to 0xC0 or 0xDB.
C15_KissFrameLayout ==
    KissSent =>
        /\ ret.bt = <<FEND, 0>> \o Escaped(arg) \o <<FEND>>
        /\ Len(ret.bt) = Len(arg) + 3 + Cardinality(Specials(arg))

\* the bytes between the first and the last byte written
Interior(written) == SubSeq(written, 2, Len(written) - 1)

\* the KISS un-escaping of a receiver: FESC TFEND is FEND, FESC TFESC is
\* FESC, any other byte is itself
RECURSIVE Unescape(_)
Unescape(bytes) ==
    IF bytes = <<>> THEN <<>>
    ELSE IF Head(bytes) = FESC /\ Len(bytes) >= 2
    THEN <<IF bytes[2] = TFEND THEN FEND ELSE IF bytes[2] = TFESC THEN FESC ELSE bytes[2]>>
         \o Unescape(Tail(Tail(bytes)))
    ELSE <<Head(bytes)>> \o Unescape(Tail(bytes))

\* C16: in what sendKISSpacket writes, 0xC0 is the first and the last byte
\* and occurs nowhere else, every 0xDB in between is followed by 0xDC or
\* 0xDD, and un-escaping the bytes after the frame start gives back the
\* payload (after the command byte where one is written).
C16_KissEscapingReversible ==
    KissSent =>
        LET w == ret.bt
            inner == Interior(w)
        IN  /\ Len(w) >= 2
            /\ w[1] = FEND
            /\ w[Len(w)] = FEND
            /\ \A i \in 1..Len(inner) : inner[i] # FEND
            /\ \A i \in 1..Len(inner) :
                  inner[i] = FESC => (i < Len(inner) /\ inner[i + 1] \in {TFEND, TFESC})
            /\ Unescape(inner) \in {arg, <<0>> \o arg}
            /\ op # "btKISSfunctions.sendKISSpacket" => Unescape(inner) = <<0>> \o arg

\* a payload with both special characters and an escape look-alike went out
C16_Witness ==
    /\ op = "kissFunctions.sendKISSpacket"
    /\ arg = <<FEND, FESC, TFEND>>
    /\ ret.bt = <<FEND, 0, FESC, TFEND, FESC, TFESC, TFEND, FEND>>

(***************************************************************************)
(* setAFSKParameters (afskEncoder.cpp), setParameters (AFSKEncoderModern)  *)
(* and SpecCfg                                                             *)
(***************************************************************************)
\* a & b on uint8_t
BitAnd(a, b) ==
    LET and[k \in 0..8] ==
            IF k = 8 THEN 0
            ELSE (IF BitOf(a, k) = 1 /\ BitOf(b, k) = 1 THEN 2^k ELSE 0) + and[k + 1]
    IN  and[0]

\* the arguments tried: frequencies and baud rate zero or the default,
\* amplitude in tenths below 0.0, inside and above 1.0, samplesPerCycle
\* zero, a power of two and another number
ParamSets ==
    [markFreq : {0, MARK_FREQ}, spaceFreq : {0, SPACE_FREQ}, baudRate : {0, BAUD_RATE},
     amplitude : {-1, AMPLITUDE, 11}, samplesPerCycle : {0, 4, 6}]

\* the configuration with the arguments stored
Configured(d, p) ==
    [d EXCEPT !.markFreq = p.markFreq, !.spaceFreq = p.spaceFreq,
              !.baudRate = p.baudRate, !.amplitude = p.amplitude,
              !.samplesPerCycle = p.samplesPerCycle]

\* setAFSKParameters(markFreq, spaceFreq, baudRate, amplitude,
\* samplesPerCycle) with generateWaveTable; malloc may fail
setAFSKParameters(c, p) ==
    /\ Linked("encoder")
    /\ Enter(c, "setAFSKParameters", p)
    /\ LET d1 == Configured(drv, p)
       IN  IF ~d1.initialized
           THEN /\ drv' = d1
                /\ Return(c, "AFSK_SUCCESS")
           ELSE \E mallocOk \in BOOLEAN :
                   IF mallocOk
                   THEN /\ drv' = [d1 EXCEPT !.waveTable = TRUE,
                                             !.tableLen = d1.samplesPerCycle]
                        /\ Return(c, "AFSK_SUCCESS")
                   ELSE /\ drv' = [d1 EXCEPT !.waveTable = FALSE, !.tableLen = 0]
                        /\ Reject(c, "AFSK_ERROR_DAC_INIT", "alloc")
    /\ UNCHANGED hw

\* the three validations of setParameters pass
setParametersValid(p) ==
    /\ ~(p.amplitude < 0 \/ p.amplitude > 10)
    /\ ~(p.samplesPerCycle = 0 \/ BitAnd(p.samplesPerCycle, p.samplesPerCycle - 1) # 0)
    /\ ~(p.markFreq = 0 \/ p.spaceFreq = 0 \/ p.baudRate = 0)

\* setParameters(markFreq, spaceFreq, baudRate, amplitude, samplesPerCycle)
\* with generateWaveTables (and its cleanupResources); malloc may fail
setParameters(c, p) ==
    /\ Linked("modern")
    /\ Enter(c, "setParameters", p)
    /\ IF ~setParametersValid(p)
       THEN /\ Reject(c, "ERROR_INVALID_PARAMS", "params")
            /\ UNCHANGED drv
       ELSE LET d1 == Configured(drv, p)
            IN  IF ~d1.initialized
                THEN /\ drv' = d1
                     /\ Return(c, "SUCCESS")
                ELSE \E mallocOk \in BOOLEAN :
                        IF mallocOk
                        THEN /\ drv' = [d1 EXCEPT !.tables = TRUE,
                                                  !.tableLen = d1.samplesPerCycle]
                             /\ Return(c, "SUCCESS")
                        ELSE /\ drv' = [d1 EXCEPT !.tables = FALSE, !.tableLen = 0,
                                                  !.timer = FALSE]
                             /\ Reject(c, "ERROR_DAC_INIT", "alloc")
    /\ UNCHANGED hw

\* one task, the two encoders that can be configured, before their setup
InitCfg == \E v \in {"encoder", "modern"} : InitTasks({1}, v) /\ drv = DrvOf(v)

NextCfg ==
    \/ setupAFSKEncoder
    \/ begin
    \/ \E c \in Tasks, p \in ParamSets :
          \/ setAFSKParameters(c, p)
          \/ setParameters(c, p)

SpecCfg == InitCfg /\ [][NextCfg]_vars

\* n is one of 1, 2, 4, ..., 128
PowerOfTwo(n) == \E k \in 0..7 : n = 2^k

\* the arguments the claim calls invalid
InvalidParams(p) ==
    \/ p.amplitude < 0 \/ p.amplitude > 10
    \/ ~PowerOfTwo(p.samplesPerCycle)
    \/ p.markFreq = 0 \/ p.spaceFreq = 0 \/ p.baudRate = 0

\* the wave table(s) exist
HasTables == IF variant = "modern" THEN drv.tables ELSE drv.waveTable

\* C17: a call of setParameters / setAFSKParameters with invalid arguments
\* returns the configuration error and changes neither the configuration
\* nor the wave tables; and an existing wave table always has a length that
\* is a non-zero power of two.
C17_InvalidParamsRejected ==
    /\ [][\A c \in Tasks :
            (/\ req'[c].fn \in {"setAFSKParameters", "setParameters"}
             /\ InvalidParams(req'[c].data)
             /\ setAFSKParameters(c, req'[c].data) \/ setParameters(c, req'[c].data)) =>
                /\ status'[c] \in {"ERROR_INVALID_PARAMS", "AFSK_ERROR_INVALID_PARAMS"}
                /\ drv' = drv]_vars
    /\ [](HasTables => PowerOfTwo(drv.tableLen))

(***************************************************************************)
(* SpecLoop: loop() of main.cpp in normal operation: checkBTforData(),     *)
(* then receiveAFSK(), again and again                                     *)
(***************************************************************************)
\* the bit decisions the receiver makes in a run
MaxLoopBits == 1

\* the task that runs loop()
LoopTask == 1

\* loop() goes to receiveAFSK() whatever checkBTforData() did
LoopAtReceive_anytime == TRUE

\* loop() is at receiveAFSK(): checkBTforData() and the transmitAX25 it may
\* have called have returned
LoopAtReceive == pc[LoopTask] = "idle"

\* checkBTforData() with BTSerial.available(): the bytes read go to
\* transmitAX25, which returns when the transmission is over
checkBTforData ==
    \/ afskEncode_transmitAX25(LoopTask)
    \/ afskEncoder_transmitAX25(LoopTask)

\* receiveAFSK(): processGoertzel() decides one bit from a block of ADC
\* samples and passes it to handleBit
receiveAFSK ==
    /\ LoopAtReceive
    /\ variant = "legacy" => drv.timer
    /\ handleBitCall
    /\ UNCHANGED <<encVars, txVars, cacheVars>>

\* the audio at the ADC as the bits processGoertzel will decide
InitLoop ==
    /\ \E v \in {"legacy", "encoder"} :
          /\ EncIdle
          /\ CacheIdle
          /\ variant = v
          /\ callers = {LoopTask}
          /\ TasksIdle
          /\ hw = HwReset
          /\ drv = DrvOf(v)
    /\ rxSrc = [kind |-> "adc"]
    /\ rxLine \in {l \in SeqsUpTo({0, 1}, MaxLoopBits) : Len(l) = MaxLoopBits}
    /\ rxPos = 0
    /\ rxDecoded = <<>>
    /\ rxLocals = [called |-> FALSE]
    /\ kissOut = <<>>
    /\ adcRead = 0
    /\ mag = [mark |-> 0, space |-> 0]

NextLoop ==
    \/ setupAFSKencoder
    \/ onTimer
    \/ setupAFSKEncoder
    \/ afskTimerISR
    \/ checkBTforData
    \/ receiveAFSK
    \/ afskEncode_afskSendCalled(LoopTask)
    \/ afskEncode_afskSendBit(LoopTask)
    \/ afskEncode_afskSendDone(LoopTask)
    \/ afskEncode_unkey(LoopTask)
    \/ afskEncoder_afskSendBit(LoopTask)
    \/ afskEncoder_afskSendDone(LoopTask)

SpecLoop == InitLoop /\ [][NextLoop]_vars

\* C18: in loop() a receive step (receiveAFSK, processGoertzel, handleBit)
\* runs only while no transmit request is in progress: PTT and the LED are
\* low and the sample timer is off, before and after the step.
C18_NoReceiveWhileTransmitting ==
    [][rxPos' # rxPos =>
          /\ \A c \in callers : pc[c] = "idle" /\ pc'[c] = "idle"
          /\ hw.ptt = 0 /\ hw.led = 0 /\ ~hw.alarm
          /\ hw' = hw]_vars

\* a receive step after a transmission that keyed the transmitter
C18_Witness ==
    /\ variant = "legacy"
    /\ rxPos > 0
    /\ req[LoopTask].fn = "transmitAX25"
    /\ pc[LoopTask] = "idle"
    /\ why[LoopTask] = "none"
    /\ hw.period > 0
    /\ hw.ptt = 0

(***************************************************************************)
(* The layout of a stuffed frame (SpecEnc)                                 *)
(***************************************************************************)
\* the bit sequence with a 0 inserted after every five consecutive 1 bits
RECURSIVE StuffFrom(_, _, _, _)
StuffFrom(bits, k, ones, acc) ==
    IF k > Len(bits) THEN acc
    ELSE LET run  == IF bits[k] = 1 THEN ones + 1 ELSE 0
             acc1 == IF run = 5 THEN acc \o <<bits[k], 0>> ELSE Append(acc, bits[k])
         IN  IF Evaluated(acc1)
             THEN StuffFrom(bits, k + 1, IF run = 5 THEN 0 ELSE run, acc1)
             ELSE acc1

StuffBits(bits) == StuffFrom(bits, 1, 0, <<>>)

\* the bit sequence followed by 0 bits up to the next multiple of 8
PadToByte(bits) == bits \o [k \in 1..((8 - (Len(bits) % 8)) % 8) |-> 0]

\* C19: the output of ax25Encode / encodeAX25, read LSB-first, is the flag
\* 0x7E, the payload bits with a 0 after every five consecutive 1 bits, 0
\* bits up to the byte boundary, and the flag 0x7E; its length is
\* 2 + ceil((8*len + s) / 8) for s inserted bits.
C19_StuffedFrameLayout ==
    Stuffed =>
        LET stuffed == StuffBits(Bits(arg))
            s       == Len(stuffed) - 8 * Len(arg)
            length  == IF op = "encodeAX25" THEN ret.len ELSE Len(ret.out)
        IN  /\ Bits(ret.out) =
                    Bits(<<KISS_FRAME_FLAG>>) \o PadToByte(stuffed) \o Bits(<<KISS_FRAME_FLAG>>)
            /\ length = 2 + ((8 * Len(arg) + s + 7) \div 8)

\* the complete frame of a payload: flag, stuffed bits, padding, flag
FrameBits(payload) ==
    Bits(<<KISS_FRAME_FLAG>>) \o PadToByte(StuffBits(Bits(payload)))
        \o Bits(<<KISS_FRAME_FLAG>>)

\* C32: encodeAX25 with capacity maxOutputLen returns 0 if and only if the
\* complete frame, both flags included, needs more than maxOutputLen bytes;
\* otherwise it returns the complete frame ending with 0x7E, no payload bit
\* dropped; and it never writes at an index >= maxOutputLen.
C32_OverflowIffFrameTooLong ==
    op = "encodeAX25Capped" =>
        LET needed == Len(FrameBits(arg)) \div 8
        IN  /\ ret.len = 0 <=> needed > ret.maxOutputLen
            /\ ret.len # 0 => (ret.len = needed /\ Bits(ret.out) = FrameBits(arg))
            /\ Len(ret.out) <= ret.maxOutputLen

(***************************************************************************)
(* waveTables.cpp: generateAndStoreTables, loadTables, and SpecTables      *)
(***************************************************************************)
\* 128 + 80 * sin(2 * PI * i * 1200.0 / SAMPLE_RATE) as uint8_t, i = 0..63
GeneratedSine1200 ==
    <<128, 192, 204, 152, 80, 48, 80, 152, 204, 192, 128, 63, 51, 103, 175, 208,
      175, 103, 51, 63, 127, 192, 204, 152, 80, 48, 80, 152, 204, 192, 128, 63,
      51, 103, 175, 208, 175, 103, 51, 63, 127, 192, 204, 152, 80, 48, 80, 152,
      204, 192, 127, 63, 51, 103, 175, 208, 175, 103, 51, 63, 127, 192, 204, 152>>

\* 128 + 80 * sin(2 * PI * i * 2200.0 / SAMPLE_RATE) as uint8_t, i = 0..63
GeneratedSine2200 ==
    <<128, 207, 103, 56, 175, 184, 63, 91, 204, 140, 48, 140, 204, 91, 63, 184,
      175, 56, 103, 207, 128, 48, 152, 199, 80, 71, 192, 164, 51, 115, 208, 115,
      51, 164, 192, 71, 80, 199, 152, 48, 127, 207, 103, 56, 175, 184, 63, 91,
      204, 140, 48, 140, 204, 91, 63, 184, 175, 56, 103, 207, 128, 48, 152, 199>>

\* a key of the NVS namespace holding v
Present(v) == [present |-> TRUE, value |-> v]

\* prefs.getBool(key, false)
getBool(entry) == IF entry.present THEN entry.value ELSE FALSE

\* prefs.getBytes(key, buf, maxLen): [len |-> the length returned,
\* buf |-> the buffer afterwards]; nothing is read when the key is absent
\* or its blob is longer than maxLen
getBytes(entry, buf, maxLen) ==
    IF ~entry.present \/ Len(entry.value) > maxLen \/ Len(entry.value) = 0
    THEN [len |-> 0, buf |-> buf]
    ELSE [len |-> Len(entry.value),
          buf |-> entry.value \o SubSeq(buf, Len(entry.value) + 1, Len(buf))]

\* a loadTables that looks at the length of the first table only
loadTablesFound_firstOnly(ready, len1, len2) == ready /\ len1 = TABLE_LEN

\* the value loadTables returns
loadTablesFound(ready, len1, len2) == ready /\ len1 = TABLE_LEN /\ len2 = TABLE_LEN

\* generateAndStoreTables(): fill the tables, store them and the ready flag
\* (the NVS takes the three writes)
generateAndStoreTables ==
    /\ sine1200' = GeneratedSine1200
    /\ sine2200' = GeneratedSine2200
    /\ nvs' = [ready |-> Present(TRUE), sine1200 |-> Present(GeneratedSine1200),
               sine2200 |-> Present(GeneratedSine2200)]
    /\ found' = "none"
    /\ stored' = TRUE
    /\ UNCHANGED <<encVars, rxVars, txVars>>

\* loadTables()
loadTables ==
    /\ IF ~getBool(nvs.ready)
       THEN /\ found' = "false"
            /\ UNCHANGED <<sine1200, sine2200>>
       ELSE LET r1 == getBytes(nvs.sine1200, sine1200, TABLE_LEN)
                r2 == getBytes(nvs.sine2200, sine2200, TABLE_LEN)
            IN  /\ sine1200' = r1.buf
                /\ sine2200' = r2.buf
                /\ found' = IF loadTablesFound(TRUE, r1.len, r2.len)
                            THEN "true" ELSE "false"
    /\ UNCHANGED <<nvs, stored, encVars, rxVars, txVars>>

\* a restart: the tables in RAM are zeroed, the NVS keeps its content
restart ==
    /\ found # "none"
    /\ sine1200' = [i \in 1..TABLE_LEN |-> 0]
    /\ sine2200' = [i \in 1..TABLE_LEN |-> 0]
    /\ found' = "none"
    /\ UNCHANGED <<nvs, stored, encVars, rxVars, txVars>>

\* what an earlier firmware may have left under a table key: nothing, a
\* table of half or of twice the length, or a full table of other content
StaleBlobs ==
    {Absent,
     Present([i \in 1..(TABLE_LEN \div 2) |-> 255]),
     Present([i \in 1..(2 * TABLE_LEN) |-> 255]),
     Present([i \in 1..TABLE_LEN |-> 0]),
     Present([i \in 1..TABLE_LEN |-> 255])}

InitTables ==
    /\ EncIdle
    /\ RxIdle
    /\ variant = "none"
    /\ callers = {}
    /\ TasksIdle
    /\ hw = HwReset
    /\ drv = [initialized |-> FALSE]
    /\ nvs \in [ready : {Absent, Present(FALSE), Present(TRUE)},
                 sine1200 : StaleBlobs, sine2200 : StaleBlobs]
    /\ sine1200 = [i \in 1..TABLE_LEN |-> 0]
    /\ sine2200 = [i \in 1..TABLE_LEN |-> 0]
    /\ found = "none"
    /\ stored = FALSE

NextTables ==
    \/ generateAndStoreTables
    \/ loadTables
    \/ restart

SpecTables == InitTables /\ [][NextTables]_vars

\* C20: loadTables returns true only if the stored ready flag is true and
\* both stored tables have the full TABLE_LEN length, and false when the
\* ready flag was never stored; a loadTables after generateAndStoreTables
\* returns true and leaves in sine1200 and sine2200 the tables that were
\* stored.
C20_TableCacheContract ==
    /\ found = "true" =>
          /\ getBool(nvs.ready)
          /\ Len(nvs.sine1200.value) = TABLE_LEN
          /\ Len(nvs.sine2200.value) = TABLE_LEN
    /\ (~nvs.ready.present /\ found # "none") => found = "false"
    /\ (stored /\ found # "none") =>
          /\ found = "true"
          /\ sine1200 = nvs.sine1200.value
          /\ sine2200 = nvs.sine2200.value
          /\ sine1200 = GeneratedSine1200
          /\ sine2200 = GeneratedSine2200

\* the tables were stored, the RAM was zeroed by a restart, and loadTables
\* has brought them back
C20_Witness ==
    /\ stored
    /\ found = "true"
    /\ sine1200 = GeneratedSine1200
    /\ sine2200 = GeneratedSine2200
    /\ sine1200 # sine2200

(***************************************************************************)
(* goertzelFilter.cpp: setupGoertzel, processGoertzel, and SpecGoertzel    *)
(***************************************************************************)
SAMPLE_RATE == 9600     \* ADC samples per second the coefficients assume
ADC_MIDPOINT == 2048    \* the ADC reading of silence
GOERTZEL_N == 64        \* samples per block

\* the calls of processGoertzel in a run
MaxBlocks == 2

\* The floats of the filter are fixed-point numbers here: a coefficient c is
\* the integer c * FixedPoint, the filter states q and the magnitudes are
\* integers in units of ADC counts (and their squares).
FixedPoint == 4096

\* FixedPoint * sin(2 * PI * k / 48), k = 0..47
SineTable ==
    <<0, 535, 1060, 1567, 2048, 2493, 2896, 3250, 3547, 3784, 3956, 4061,
      4096, 4061, 3956, 3784, 3547, 3250, 2896, 2493, 2048, 1567, 1060, 535,
      0, -535, -1060, -1567, -2048, -2493, -2896, -3250, -3547, -3784, -3956, -4061,
      -4096, -4061, -3956, -3784, -3547, -3250, -2896, -2493, -2048, -1567, -1060, -535>>

\* FixedPoint * sin and cos of the angle 2 * PI * k / Len(SineTable)
Sin(k) == SineTable[(k % Len(SineTable)) + 1]
Cos(k) == Sin(k + Len(SineTable) \div 4)

\* omega = 2.0 * PI * freq / SAMPLE_RATE in steps of the sine table (a whole
\* number of steps for 1200 Hz and for 2200 Hz)
Omega(freq) == (Len(SineTable) * freq) \div SAMPLE_RATE

\* setupGoertzel(): coeffMark and coeffSpace
coeffMark == 2 * Cos(Omega(MARK_FREQ))
coeffSpace == 2 * Cos(Omega(SPACE_FREQ))

\* analogRead(RX_PIN) for sample number n of the audio `src`: silence, or
\* a sine of the given tone, amplitude (in ADC counts) and start phase
analogRead(src, n) ==
    IF src.tone = 0 THEN ADC_MIDPOINT
    ELSE ADC_MIDPOINT + ((src.amplitude * Sin(Omega(src.tone) * n + src.phase)) \div FixedPoint)

\* the loop of processGoertzel from sample i on: q = [qm1, qm2, qs1, qs2]
RECURSIVE goertzelLoop(_, _, _, _)
goertzelLoop(src, first, i, q) ==
    IF i >= GOERTZEL_N THEN q
    ELSE LET in     == analogRead(src, first + i) - ADC_MIDPOINT
             new_qm == ((coeffMark * q.qm1) \div FixedPoint) - q.qm2 + in
             new_qs == ((coeffSpace * q.qs1) \div FixedPoint) - q.qs2 + in
             q1     == [qm1 |-> new_qm, qm2 |-> q.qm1, qs1 |-> new_qs, qs2 |-> q.qs1,
                        reads |-> q.reads + 1]
         IN  IF Evaluated(q1) THEN goertzelLoop(src, first, i + 1, q1) ELSE q1

\* q1 * q1 + q2 * q2 - q1 * q2 * coeff
magnitude(q1, q2, coeff) == q1 * q1 + q2 * q2 - ((q1 * q2) \div FixedPoint) * coeff

\* a processGoertzel that gives a tie to mark
decideBit_tieToMark(magMark, magSpace) == IF magMark >= magSpace THEN 1 ELSE 0

\* bool bit = magMark > magSpace
decideBit(magMark, magSpace) == IF magMark > magSpace THEN 1 ELSE 0

\* a processGoertzel that tells the tones apart the other way round
processGoertzelBlock_swapped(src, first) ==
    LET q == goertzelLoop(src, first, 0, [qm1 |-> 0, qm2 |-> 0, qs1 |-> 0, qs2 |-> 0,
                                          reads |-> 0])
        magMark  == magnitude(q.qs1, q.qs2, coeffSpace)
        magSpace == magnitude(q.qm1, q.qm2, coeffMark)
    IN  [reads |-> q.reads, magMark |-> magMark, magSpace |-> magSpace,
         bit |-> decideBit(magMark, magSpace)]

\* processGoertzel() up to the call of handleBit, reading from sample
\* `first` on: [reads, magMark, magSpace, bit]
processGoertzelBlock(src, first) ==
    LET q == goertzelLoop(src, first, 0, [qm1 |-> 0, qm2 |-> 0, qs1 |-> 0, qs2 |-> 0,
                                          reads |-> 0])
        magMark  == magnitude(q.qm1, q.qm2, coeffMark)
        magSpace == magnitude(q.qs1, q.qs2, coeffSpace)
    IN  [reads |-> q.reads, magMark |-> magMark, magSpace |-> magSpace,
         bit |-> decideBit(magMark, magSpace)]

\* processGoertzel(): one block, then handleBit(bit)
processGoertzel ==
    /\ rxPos < MaxBlocks
    /\ LET g == processGoertzelBlock(rxSrc, adcRead)
       IN  /\ adcRead' = adcRead + g.reads
           /\ mag' = [mark |-> g.magMark, space |-> g.magSpace]
           /\ rxLine' = Append(rxLine, g.bit)
           /\ \E garbage \in StackGarbage :
                 LET r == handleBitBody(handleBitEntry(garbage), g.bit)
                 IN  /\ kissOut' = kissOut \o r.sent
                     /\ rxDecoded' = Append(rxDecoded, r.decoded)
                     /\ rxLocals' = Scalars(r.l)
    /\ rxPos' = rxPos + 1
    /\ UNCHANGED <<rxSrc, encVars, txVars, cacheVars>>

\* the audio at the ADC: silence, or a pure mark or space tone at a small
\* or a large amplitude and any start phase
AudioSources ==
    {[kind |-> "adc", tone |-> 0, amplitude |-> 0, phase |-> 0]} \cup
    [kind : {"adc"}, tone : {MARK_FREQ, SPACE_FREQ}, amplitude : {50, 500},
     phase : 0..(Len(SineTable) - 1)]

InitGoertzel ==
    /\ EncIdle
    /\ TxIdle
    /\ rxSrc \in AudioSources
    /\ rxLine = <<>>
    /\ rxPos = 0
    /\ rxDecoded = <<>>
    /\ rxLocals = [called |-> FALSE]
    /\ kissOut = <<>>
    /\ adcRead = 0
    /\ mag = [mark |-> 0, space |-> 0]

NextGoertzel == processGoertzel

SpecGoertzel == InitGoertzel /\ [][NextGoertzel]_vars

\* C21: a block of a pure 1200 Hz sine sampled at 9600 Hz gives
\* magMark > magSpace and the bit 1; a block of a pure 2200 Hz sine gives
\* magSpace > magMark and the bit 0.
C21_GoertzelSelectivity ==
    rxPos > 0 =>
        /\ rxSrc.tone = MARK_FREQ => (mag.mark > mag.space /\ rxLine[rxPos] = 1)
        /\ rxSrc.tone = SPACE_FREQ => (mag.space > mag.mark /\ rxLine[rxPos] = 0)

\* a block of each tone has been decided, and by a wide margin
C21_Witness ==
    /\ rxPos = MaxBlocks
    /\ rxSrc.tone = SPACE_FREQ
    /\ rxSrc.amplitude = 500
    /\ rxLine = <<0, 0>>
    /\ mag.space > 16 * mag.mark
    /\ mag.mark > 0

(***************************************************************************)
(* SpecTone: one task configures an encoder and sends bit arrays           *)
(***************************************************************************)
\* the largest values of the parameter types uint16_t and uint8_t
UINT16_MAX == 65535
UINT8_MAX == 255

\* the configurations tried: the default tones or the highest mark tone, a
\* short wave table or the longest one
ToneParamSets ==
    [markFreq : {MARK_FREQ, UINT16_MAX}, spaceFreq : {SPACE_FREQ}, baudRate : {BAUD_RATE},
     amplitude : {AMPLITUDE}, samplesPerCycle : {4, UINT8_MAX}]

InitTone ==
    \E v \in {"legacy", "encoder", "modern"} : InitTasks({1}, v) /\ drv = DrvOf(v)

NextTone ==
    \/ setupAFSKencoder
    \/ onTimer
    \/ setupAFSKEncoder
    \/ afskTimerISR
    \/ begin
    \/ handleTimerInterrupt
    \/ \E c \in Tasks :
          \/ \E p \in ToneParamSets : setAFSKParameters(c, p) \/ setParameters(c, p)
          \/ afskEncode_afskSend(c)
          \/ afskEncode_afskSendBit(c)
          \/ afskEncode_afskSendDone(c)
          \/ afskEncoder_afskSend(c)
          \/ afskEncoder_afskSendBit(c)
          \/ afskEncoder_afskSendDone(c)
          \/ Modern_transmitBits(c)
          \/ Modern_startTransmission(c)
          \/ Modern_waitDone(c)
          \/ Modern_unkey(c)

SpecTone == InitTone /\ [][NextTone]_vars

\* the bit being transmitted: the bit whose period the bit loop of afskSend
\* programmed last, or the bit _bitIndex of the modern encoder
SendingBit(c) ==
    IF variant = "modern" THEN loc[c].bits[drv.bitIndex + 1]
    ELSE loc[c].bits[loc[c].bit]

\* task c is transmitting a bit
BitOnAir(c) ==
    IF variant = "modern"
    THEN pc[c] = "wait" /\ drv.isTransmitting /\ drv.bitIndex < Len(loc[c].bits)
    ELSE pc[c] = "send" /\ loc[c].bit >= 1

\* the tones and the table length in force: the constants of afskEncode.cpp
\* or the configuration
ToneConfig ==
    IF variant = "legacy"
    THEN [markFreq |-> MARK_FREQ, spaceFreq |-> SPACE_FREQ,
          samplesPerCycle |-> SAMPLES_PER_CYCLE]
    ELSE [markFreq |-> drv.markFreq, spaceFreq |-> drv.spaceFreq,
          samplesPerCycle |-> drv.samplesPerCycle]

DefaultTones ==
    /\ ToneConfig.markFreq = MARK_FREQ
    /\ ToneConfig.spaceFreq = SPACE_FREQ
    /\ ToneConfig.samplesPerCycle = SAMPLES_PER_CYCLE

\* C26: while bit b is transmitted the tone is mark for b = 1 and space for
\* b = 0 and the alarm period is timerFrequency div (toneFrequency *
\* samplesPerCycle): 260 ticks for mark and 142 for space with the defaults,
\* and never 0 for a configuration that was accepted.
C26_TonePeriod ==
    \A c \in callers :
       BitOnAir(c) =>
          LET tone == IF SendingBit(c) = 1 THEN ToneConfig.markFreq
                      ELSE ToneConfig.spaceFreq
          IN  /\ hw.period = TIMER_FREQ \div (tone * ToneConfig.samplesPerCycle)
              /\ variant = "modern" => drv.currentTable = (IF SendingBit(c) = 1 THEN 0 ELSE 1)
              /\ DefaultTones => hw.period = (IF SendingBit(c) = 1 THEN 260 ELSE 142)
              /\ hw.period # 0

\* the index into the wave table: currentSampleIdx of onTimer,
\* currentSampleIndex of afskEncoder.cpp, _sampleIndex of the modern encoder
SampleIndex(d) ==
    IF variant = "legacy" THEN d.currentSampleIdx
    ELSE IF variant = "encoder" THEN d.currentSampleIndex
    ELSE d.sampleIndex

\* a transmission is under way: a task is in the bit loop of afskSend, or
\* the modern encoder has _isTransmitting set
OnAir ==
    IF variant = "modern" THEN drv.isTransmitting
    ELSE \E c \in callers : pc[c] = "send"

\* a step of the timer callback
TimerCallback == onTimer \/ afskTimerISR \/ handleTimerInterrupt

\* C27: within a transmission the wave table index changes only by the
\* timer callback's step index := (index + 1) mod samplesPerCycle; a change
\* of tone between two bits does not set it otherwise.
C27_PhaseContinuity ==
    [][OnAir =>
          \/ SampleIndex(drv') = SampleIndex(drv)
          \/ /\ TimerCallback
             /\ SampleIndex(drv') = (SampleIndex(drv) + 1) % ToneConfig.samplesPerCycle]_vars

\* the timer callback is about to read the wave table at its index:
\* afskTimerISR past its guard, handleTimerInterrupt past its guard
CallbackReads ==
    /\ hw.alarm
    /\ IF variant = "encoder" THEN drv.timerEnabled /\ drv.waveTable
       ELSE variant = "modern" /\ drv.isTransmitting /\ drv.bitBuffer # -1

\* C35: whenever the timer callback reads the wave table, the index it uses
\* is below the length of the table, also after setAFSKParameters or
\* setParameters made the table shorter.
C35_IndexInsideTable ==
    CallbackReads => SampleIndex(drv) < drv.tableLen

(***************************************************************************)
(* The order of the bits of a transmission (SpecTxLive)                    *)
(***************************************************************************)
\* the bit array the modern encoder is sending: what _bitBuffer points to
BitArray == IF drv.bitBuffer = 0 THEN SubSeq(drv.nrziBuffer, 1, drv.totalBits)
            ELSE loc[drv.bitBuffer].bits

\* the wave table of a bit: 0 = mark for a 1, 1 = space for a 0
TableOf(bit) == IF bit # 0 THEN 0 ELSE 1

\* the modern encoder: _bitIndex starts at 0 with the tone of bit 0, moves
\* only in the timer callback and only by one, each new index selects the
\* tone of its bit, and the transmission ends when the index reaches n
ModernBitsInOrder ==
    /\ \A c \in callers :
          (Modern_startTransmission(c) /\ drv'.totalBits >= 1) =>
              /\ drv'.bitIndex = 0
              /\ drv'.currentTable = TableOf(BitArray'[1])
    /\ (variant = "modern" /\ drv.isTransmitting /\ drv.totalBits >= 1) =>
          /\ drv'.bitIndex = drv.bitIndex \/ (BitTimeElapses /\ drv.bitIndex < drv.totalBits)
          /\ drv'.isTransmitting <=> drv'.bitIndex < drv.totalBits
          /\ (drv'.isTransmitting /\ drv'.bitIndex # drv.bitIndex) =>
                drv'.currentTable = TableOf(BitArray[drv'.bitIndex + 1])
          /\ drv'.bitIndex = drv.bitIndex => drv'.currentTable = drv.currentTable

\* the bit loops of afskSend: each turn programs the tone of the next bit and
\* holds it for a bit time, and the loop is left after the last bit
LoopBitsInOrder ==
    \A c \in callers :
       (variant # "modern" /\ pc[c] = "send") =>
          /\ pc'[c] = "send" =>
                \/ loc'[c] = loc[c] /\ hw'.period = hw.period
                \/ /\ afskEncode_afskSendBit(c) \/ afskEncoder_afskSendBit(c)
                   /\ loc'[c].bit = loc[c].bit + 1
                   /\ loc'[c].bit <= Len(loc[c].bits)
                   /\ loc'[c].bits = loc[c].bits
                   /\ hw'.period = calculateTimerTicks(ToneOf(loc[c].bits[loc'[c].bit]),
                                                       SAMPLES_PER_CYCLE)
          /\ pc'[c] # "send" => (loc[c].bit = Len(loc[c].bits) /\ ~hw'.alarm)

C29_OneBitPerBlock ==
    /\ adcRead = GOERTZEL_N * rxPos
    /\ Len(rxLine) = rxPos
    /\ Len(rxDecoded) = rxPos
    /\ rxPos > 0 =>
          /\ rxLine[rxPos] = 1 <=> mag.mark > mag.space
          /\ rxDecoded[rxPos] = 1 - rxLine[rxPos]
          /\ rxSrc.tone = 0 => (mag.mark = mag.space /\ rxLine[rxPos] = 0)

\* two blocks of silence were decided
C29_Witness ==
    /\ rxSrc.tone = 0
    /\ rxPos = MaxBlocks
    /\ adcRead = GOERTZEL_N * MaxBlocks
    /\ mag = [mark |-> 0, space |-> 0]
    /\ rxLine = <<0, 0>>
    /\ rxLocals.called

\* C30: the bit-decision rate SAMPLE_RATE / GOERTZEL_N is the transmit baud
\* rate: the samples read for the bits decided so far are the samples of
\* that many transmitted bits, one block per bit.
C30_BlockSpansOneBit ==
    /\ SAMPLE_RATE \div GOERTZEL_N = BAUD_RATE
    /\ adcRead * BAUD_RATE = rxPos * SAMPLE_RATE

(***************************************************************************)
(* SpecBuf: the work buffers of transmitAX25 (afskEncode.cpp,              *)
(* afskFunctions.cpp) for the frames checkBTforData can deliver            *)
(***************************************************************************)
BtReadSize == 300       \* uint8_t buf[300] of checkBTforData
WorkBufferSize == 600   \* uint8_t stuffed[600], nrzi[600]

\* the lengths tried for readBytes(buf, sizeof(buf)): short frames and the
\* lengths around which 8 entries per stuffed byte reach 600
FrameLengths ==
    {n \in {1, 2, 3, 10, 40, 60, 72, 73, 74, 75, 76, 77, 80} : n <= BtReadSize}

\* the frames tried: the command byte 0x00, then one byte value repeated
BtFrames ==
    {[k \in 1..n |-> IF k = 1 THEN 0 ELSE fill] : n \in FrameLengths, fill \in ByteAlphabet}

\* transmitAX25(kissFrame, len) up to the two encoder calls: the number of
\* bytes ax25Encode writes to stuffed[] and of entries nrziEncode writes to
\* nrzi[]
ApplyTransmitAX25 ==
    /\ op = "none"
    /\ Len(arg) # 0
    /\ arg[1] = 0
    /\ \E wraps \in BOOLEAN :
          LET stuffed == ax25Encode(Tail(arg), wraps)
              nrzi    == nrziEncode(stuffed)
          IN  ret' = [stuffedLen |-> Len(stuffed), nrziLen |-> Len(nrzi), wraps |-> wraps]
    /\ op' = "transmitAX25"
    /\ UNCHANGED <<arg, rxVars, txVars, cacheVars>>

InitBuf ==
    /\ op = "none"
    /\ arg \in BtFrames
    /\ ret = <<>>
    /\ RxIdle
    /\ TxIdle

NextBuf == ApplyTransmitAX25

SpecBuf == InitBuf /\ [][NextBuf]_vars

\* C33: for every KISS input checkBTforData can deliver (1 to 300 bytes,
\* first byte 0x00) transmitAX25 writes only inside its two 600-byte work
\* buffers: at most 600 bytes into stuffed[], at most 600 entries into
\* nrzi[], 8 entries per stuffed byte.
C33_WorkBuffersNotOverrun ==
    op = "transmitAX25" =>
        /\ ret.stuffedLen <= WorkBufferSize
        /\ ret.nrziLen = 8 * ret.stuffedLen
        /\ ret.nrziLen <= WorkBufferSize

(***************************************************************************)
(* SpecModern: one task uses every entry point of AFSKEncoderModern        *)
(***************************************************************************)
\* the arguments of setParameters tried: the default tones with a wave
\* table of two samples
ModernParamSets ==
    [markFreq : {MARK_FREQ}, spaceFreq : {SPACE_FREQ}, baudRate : {BAUD_RATE},
     amplitude : {AMPLITUDE}, samplesPerCycle : {2}]

\* one task; setParameters was called with these arguments before begin()
InitModern ==
    /\ InitTasks({1}, "modern")
    /\ \E p \in ModernParamSets : drv = Configured(ModernDrv, p)

NextModern ==
    \/ begin
    \/ end
    \/ handleTimerInterrupt
    \/ \E c \in Tasks :
          \/ \E p \in ModernParamSets : setParameters(c, p)
          \/ Modern_transmitPacket(c)
          \/ Modern_transmitBits(c)
          \/ Modern_startTransmission(c)
          \/ Modern_waitDone(c)
          \/ Modern_unkey(c)

SpecModern == InitModern /\ [][NextModern]_vars

\* C34: in every reachable state of AFSKEncoderModern, whatever allocation
\* or timer creation failed, config.initialized implies that the timer
\* handle and both wave tables are non-null, so an accepted transmission
\* never uses a released timer or a freed table.
C34_InitializedHasResources ==
    drv.initialized => (drv.timer /\ drv.tables)

\* the step is task c calling transmitPacket or transmitBits
TransmitCall(c) ==
    /\ req'[c].fn \in {"transmitPacket", "transmitBits"}
    /\ Modern_transmitPacket(c) \/ Modern_transmitBits(c)

\* the call of task c returns at once
RejectedCall(c) == TransmitCall(c) /\ pc'[c] = "idle"

\* C36: a call of transmitPacket or transmitBits that returns a status other
\* than SUCCESS leaves PTT, the PTT LED, the timer alarm, the DAC output,
\* isTransmitting, the bit buffer pointer and the bit index as they were;
\* while the object is not initialized (before begin() succeeded, after
\* end()) every such call returns ERROR_NOT_INITIALIZED.
C36_RejectedCallNoEffect ==
    [][\A c \in callers :
          /\ RejectedCall(c) =>
                /\ status'[c] \in {"ERROR_NOT_INITIALIZED", "ERROR_INVALID_PARAMS",
                                   "ERROR_BUFFER_OVERFLOW"}
                /\ hw'.ptt = hw.ptt /\ hw'.led = hw.led
                /\ hw'.alarm = hw.alarm /\ hw'.period = hw.period
                /\ hw'.dac = hw.dac
                /\ drv'.isTransmitting = drv.isTransmitting
                /\ drv'.bitBuffer = drv.bitBuffer
                /\ drv'.bitIndex = drv.bitIndex
          /\ (TransmitCall(c) /\ ~drv.initialized) =>
                /\ RejectedCall(c)
                /\ status'[c] = "ERROR_NOT_INITIALIZED"]_vars

\* a packet was sent, end() was called, and the transmitBits that followed
\* returned ERROR_NOT_INITIALIZED
C36_Witness ==
    \E c \in callers :
       /\ pc[c] = "idle"
       /\ req[c].fn = "transmitBits"
       /\ status[c] = "ERROR_NOT_INITIALIZED"
       /\ ~drv.initialized
       /\ drv.nrziBuffer # <<>>
       /\ drv.pttPin = PTT_PIN

\* C37: in an accepted transmitBits(bits, length), length 0 included, the
\* index startTransmission or the timer callback read the bit array at
\* last (_bitIndex, while the transmission runs) is below length, and after
\* the call has returned SUCCESS isTransmitting is false and PTT is low.
C37_BitReadsInsideArray ==
    \A c \in callers :
       req[c].fn = "transmitBits" =>
          /\ (pc[c] = "wait" /\ drv.isTransmitting) => drv.bitIndex < loc[c].len
          /\ (pc[c] = "idle" /\ status[c] = "SUCCESS") =>
                (~drv.isTransmitting /\ hw.ptt = 0)

====
